---- MODULE Spec2Model ----
(***************************************************************************)
(* Model of the additional-companies product linker: the submission loop   *)
(* of main.py, ProductLinker (product_linker.py) and the remote calls of   *)
(* PipedriveClient (pipedrive_client.py) against a remote catalog and the  *)
(* line items of a deal.                                                   *)
(*                                                                         *)
(* Specifications: Spec, one invocation of the tool; SpecRerun,            *)
(* invocations one after the other on the same remote side; SpecGateway,   *)
(* PipedriveClient._make_request alone, attempt by attempt; SpecResolver,  *)
(* the pure methods of ProductLinker applied to inputs of their own;       *)
(* SpecCatalog, _find_or_create_product called again and again with one    *)
(* name; SpecDuplicate, _handle_duplicate_attachment applied to a matched  *)
(* attachment; SpecInterrupt, an invocation that the user may interrupt.   *)
(*                                                                         *)
(* Conventions.  Optional[T] is a sequence: None is << >>, a value x is    *)
(* <<x>>.  Strings that the code edits (company and product names) are     *)
(* sequences of one-character strings.  Prices are counted in hundredths   *)
(* (2.0 is 200), quantities are integers.  Enum members carry the string   *)
(* values of models.py.                                                    *)
(***************************************************************************)
EXTENDS Integers, Sequences, FiniteSets, TLC

VARIABLES
    config,               \* Config: the settings product_linker.py reads
    submissions,          \* the submissions fetched from MongoDB (input)
    catalog,              \* remote: product catalog, catalog[id] is the name
    dealProducts,         \* remote: line items of the existing deal
    run,                  \* number of the current invocation of the tool
    dry_run,              \* args.dry_run of the current invocation
    api_call_count,       \* PipedriveClient.api_call_count
    pc,                   \* position in attach_products_command / link_submission
    i,                    \* main loop: index of the current submission
    results,              \* main loop: results list
    companies,            \* link_submission: companies
    current_attachments,  \* link_submission: current_attachments
    actions,              \* link_submission: actions
    total_value,          \* link_submission: total_value
    calls,                \* remote calls issued for the current submission
    faults,               \* remote calls of this invocation that did not succeed
    exception,            \* the exception that left link_submission, or "none"
    history,              \* finished invocations, oldest first
    request,              \* _make_request: the call in flight, attempt by attempt
    probe                 \* a method of ProductLinker applied on its own

vars == <<config, submissions, catalog, dealProducts, run, dry_run,
          api_call_count, pc, i, results, companies, current_attachments,
          actions, total_value, calls, faults, exception, history, request,
          probe>>

-----------------------------------------------------------------------------
(* Bounds of the model *)

MaxCompanies == 2
MaxSubs == 2
MaxFaults == 1
MaxRuns == 2
MaxCalls == 2
MaxW2 == 3
MaxFinds == 2

-----------------------------------------------------------------------------
(* Program constants *)

max_retries == 3
NameLimit == 255
DummyProductId == 999999
PriceScale == 100
Tolerance == 1

None == << >>
Some(x) == <<x>>
IsNone(o) == o = << >>
Min(a, b) == IF a < b THEN a ELSE b
Abs(x) == IF x < 0 THEN -x ELSE x

ExistingDeal == 1
MissingDeal == 2

-----------------------------------------------------------------------------
(* Strings *)

Whitespace == {" "}

RECURSIVE LStrip(_)
LStrip(s) == IF s # << >> /\ Head(s) \in Whitespace THEN LStrip(Tail(s)) ELSE s

RECURSIVE RStrip(_)
RStrip(s) ==
    IF s # << >> /\ s[Len(s)] \in Whitespace
    THEN RStrip(SubSeq(s, 1, Len(s) - 1))
    ELSE s

\* str.strip()
Strip(s) == RStrip(LStrip(s))

\* str.rstrip("."): every trailing period goes
RECURSIVE RStripDots(_)
RStripDots(s) ==
    IF s # << >> /\ s[Len(s)] = "."
    THEN RStripDots(SubSeq(s, 1, Len(s) - 1))
    ELSE s

\* name[:255]
Truncate(s) == SubSeq(s, 1, Min(Len(s), NameLimit))

-----------------------------------------------------------------------------
(* Policy resolver: pure functions of config and the company *)

\* A validation that lets a missing W2 count through whatever
\* skip_missing_w2 says.
validate_company_missing_allowed(cfg, company) ==
    LET w2 == company.w2_employee_count IN
    IF IsNone(w2) THEN None
    ELSE IF w2[1] = 0 /\ cfg.skip_zero_w2 THEN Some("zero_w2")
    ELSE IF cfg.min_w2_count > 0 /\ w2[1] < cfg.min_w2_count THEN Some("below_minimum")
    ELSE IF cfg.max_w2_count > 0 /\ w2[1] > cfg.max_w2_count THEN Some("exceeds_maximum")
    ELSE None

validate_company(cfg, company) ==
    LET w2 == company.w2_employee_count IN
    IF IsNone(w2)
    THEN IF cfg.skip_missing_w2 THEN Some("missing_w2") ELSE None
    ELSE IF w2[1] = 0 /\ cfg.skip_zero_w2 THEN Some("zero_w2")
    ELSE IF cfg.min_w2_count > 0 /\ w2[1] < cfg.min_w2_count THEN Some("below_minimum")
    ELSE IF cfg.max_w2_count > 0 /\ w2[1] > cfg.max_w2_count THEN Some("exceeds_maximum")
    ELSE None

format_product_name(cfg, company_name) ==
    LET name == RStripDots(Strip(company_name)) IN
    CASE cfg.product_name_format = "company_name" -> name
      [] cfg.product_name_format = "company_name_with_prefix" ->
             cfg.product_name_prefix \o name
      [] cfg.product_name_format = "custom_format" -> name
      [] OTHER -> name

\* _calculate_quantity_and_price with "w2_count or 1" for the effective W2:
\* a count of zero is taken for an absent one.
calculate_quantity_and_price_zero_absent(cfg, w2_count) ==
    LET effective_w2 == IF IsNone(w2_count) \/ w2_count = Some(0) THEN 1 ELSE w2_count[1]
    IN [quantity |->
            CASE cfg.quantity_mode = "always_one" -> 1
              [] cfg.quantity_mode = "custom" -> cfg.custom_quantity
              [] OTHER -> effective_w2,
        price |->
            CASE cfg.value_calculation_mode = "w2_count" -> effective_w2 * PriceScale
              [] cfg.value_calculation_mode = "fixed_price" -> cfg.fixed_product_price
              [] OTHER -> cfg.item_price_per_employee]

calculate_quantity_and_price(cfg, w2_count) ==
    LET effective_w2 == IF IsNone(w2_count) THEN 1 ELSE w2_count[1]
        quantity ==
            CASE cfg.quantity_mode = "w2_count" -> effective_w2
              [] cfg.quantity_mode = "always_one" -> 1
              [] cfg.quantity_mode = "custom" -> cfg.custom_quantity
              [] OTHER -> effective_w2
        price ==
            CASE cfg.value_calculation_mode = "w2_count" -> effective_w2 * PriceScale
              [] cfg.value_calculation_mode = "w2_count_times_price" ->
                     cfg.item_price_per_employee
              [] cfg.value_calculation_mode = "fixed_price" -> cfg.fixed_product_price
              [] OTHER -> cfg.item_price_per_employee
    IN [quantity |-> quantity, price |-> price]

\* A company list that ignores the process mode.
get_companies_to_process_all(cfg, submission) ==
    submission.primary_company \o submission.additional_companies

get_companies_to_process(cfg, submission) ==
    LET primary ==
            IF cfg.process_companies \in {"primary_only", "both"}
            THEN submission.primary_company   \* None adds nothing
            ELSE << >>
        additional ==
            IF cfg.process_companies \in {"additional_only", "both"}
            THEN submission.additional_companies
            ELSE << >>
    IN primary \o additional

RECURSIVE find_existing_attachment(_, _)
find_existing_attachment(product_id, attachments) ==
    IF attachments = << >> THEN None
    ELSE IF Head(attachments).product_id = product_id THEN Some(Head(attachments))
    ELSE find_existing_attachment(product_id, Tail(attachments))

-----------------------------------------------------------------------------
(* Remote gateway: PipedriveClient._make_request *)

\* What one HTTP attempt can meet: a 2xx answer whose body says success or
\* not, HTTP 429, a timeout, a transport error, an HTTP error status.
AttemptResults ==
    {"ok", "ok_nosuccess", "r429", "timeout", "conn", "http404", "http500"}

RequestExceptions == {"conn", "http404", "http500"}

\* The retry loop from attempt `attempt` (0-based) on; script[a + 1] is what
\* attempt a meets, `count` the attempts issued and `slept` the seconds slept.
RECURSIVE make_request_from(_, _, _, _)
make_request_from(script, attempt, count, slept) ==
    IF attempt >= max_retries
    THEN [raised |-> "APIError", success |-> FALSE, attempts |-> count, slept |-> slept]
    ELSE LET r == script[attempt + 1] IN
         CASE r = "r429" ->
                  IF attempt < max_retries - 1
                  THEN make_request_from(script, attempt + 1, count + 1,
                                         slept + 2^attempt)
                  ELSE [raised |-> "RateLimitError", success |-> FALSE,
                        attempts |-> count + 1, slept |-> slept]
           [] r = "timeout" \/ r \in RequestExceptions ->
                  IF attempt < max_retries - 1
                  THEN make_request_from(script, attempt + 1, count + 1,
                                         slept + (attempt + 1))
                  ELSE [raised |-> "APIError", success |-> FALSE,
                        attempts |-> count + 1, slept |-> slept]
           [] OTHER ->
                  [raised |-> "none", success |-> (r = "ok"),
                   attempts |-> count + 1, slept |-> slept]

make_request(script) == make_request_from(script, 0, 0, 0)

\* In the linker's runs the remote side answers every attempt of one call
\* alike; the call's outcome is what _make_request makes of that.
CallOutcome(r) == make_request([a \in 1..max_retries |-> r])

\* _make_request attempt by attempt.  A request record is the call in flight:
\* the loop variable `attempt`, what the attempts so far met, the seconds and
\* the number of time.sleep calls, and how the call ended; `n` counts the calls
\* made through the gateway and `issued` the HTTP attempts of all of them.
NoRequest ==
    [status |-> "idle", method |-> "GET", attempt |-> 0, results |-> << >>,
     slept |-> 0, sleeps |-> 0, raised |-> "none", n |-> 0, issued |-> 0,
     applied |-> 0]

\* The read timeout of session.request says nothing about the remote side:
\* it may have carried the request out before the response was lost.  For
\* the gateway that attempt is a timeout like any other.
Timeouts == {"timeout", "timeout_applied"}

GatewayResults == AttemptResults \cup Timeouts

\* `applied` counts the times the remote side carried out the call in flight
Sent(req, r) ==
    [req EXCEPT !.results = Append(@, r), !.issued = @ + 1,
                !.applied = @ + (IF r \in {"ok", "timeout_applied"} THEN 1 ELSE 0)]

\* A loop body that retries once more than the budget allows: the test
\* `attempt < max_retries - 1` without its `- 1`.
attempt_step_one_more(req, r) ==
    LET sent == Sent(req, r) IN
    CASE r = "r429" ->
             IF req.attempt < max_retries
             THEN [sent EXCEPT !.slept = @ + 2^req.attempt, !.sleeps = @ + 1,
                               !.attempt = @ + 1]
             ELSE [sent EXCEPT !.status = "raised", !.raised = "RateLimitError"]
      [] r \in Timeouts \/ r \in RequestExceptions ->
             IF req.attempt < max_retries
             THEN [sent EXCEPT !.slept = @ + (req.attempt + 1), !.sleeps = @ + 1,
                               !.attempt = @ + 1]
             ELSE [sent EXCEPT !.status = "raised", !.raised = "APIError"]
      [] OTHER -> [sent EXCEPT !.status = "returned"]

\* A loop body that retries a 429 at once, without the backoff sleep.
attempt_step_no_backoff(req, r) ==
    LET sent == Sent(req, r) IN
    CASE r = "r429" ->
             IF req.attempt < max_retries - 1
             THEN [sent EXCEPT !.attempt = @ + 1]
             ELSE [sent EXCEPT !.status = "raised", !.raised = "RateLimitError"]
      [] r \in Timeouts \/ r \in RequestExceptions ->
             IF req.attempt < max_retries - 1
             THEN [sent EXCEPT !.slept = @ + (req.attempt + 1), !.sleeps = @ + 1,
                               !.attempt = @ + 1]
             ELSE [sent EXCEPT !.status = "raised", !.raised = "APIError"]
      [] OTHER -> [sent EXCEPT !.status = "returned"]

\* A counter that counts responses only: the increment placed after
\* session.request instead of before it.
count_responses(count, r) == IF r \in Timeouts \cup {"conn"} THEN count ELSE count + 1

\* one pass through the body of `for attempt in range(max_retries)`, the
\* attempt meeting r
attempt_step(req, r) ==
    LET sent == Sent(req, r) IN
    CASE r = "r429" ->
             IF req.attempt < max_retries - 1
             THEN [sent EXCEPT !.slept = @ + 2^req.attempt, !.sleeps = @ + 1,
                               !.attempt = @ + 1]
             ELSE [sent EXCEPT !.status = "raised", !.raised = "RateLimitError"]
      [] r \in Timeouts \/ r \in RequestExceptions ->
             IF req.attempt < max_retries - 1
             THEN [sent EXCEPT !.slept = @ + (req.attempt + 1), !.sleeps = @ + 1,
                               !.attempt = @ + 1]
             ELSE [sent EXCEPT !.status = "raised", !.raised = "APIError"]
      [] OTHER -> [sent EXCEPT !.status = "returned"]

\* self.api_call_count += 1, the first statement of every attempt
count_attempt(count, r) == count + 1

\* The client and the remote side, threaded through the calls of one step;
\* `company` is the position of the company being processed (0: none).
Ctx == [catalog |-> catalog, dealProducts |-> dealProducts,
        api_call_count |-> api_call_count, calls |-> calls, faults |-> faults,
        company |-> IF pc = "company" THEN Len(actions) + 1 ELSE 0]

\* An entry of the call log: the operation, what it carried, the company it
\* was issued for and how the gateway ended it.
Call(op) == [op |-> op, name |-> None, product_id |-> None, attachment_id |-> None,
             item_price |-> None, quantity |-> None, company |-> 0, result |-> "ok"]

ResultOf(out) ==
    IF out.raised # "none" THEN out.raised
    ELSE IF out.success THEN "ok" ELSE "nosuccess"

\* One call through the gateway.  `natural` holds the answers the remote side
\* gives when nothing goes wrong; any other answer is a fault, and a run
\* meets at most MaxFaults of them.
Request(ctx, call, natural) ==
    { [ctx |-> [ctx EXCEPT !.api_call_count = @ + CallOutcome(r).attempts,
                           !.calls = Append(@, [call EXCEPT
                                                  !.company = ctx.company,
                                                  !.result = ResultOf(CallOutcome(r))]),
                           !.faults = @ + (IF r \in natural THEN 0 ELSE 1)],
       out |-> CallOutcome(r)] :
      r \in {x \in AttemptResults : x \in natural \/ ctx.faults < MaxFaults} }

Returned(ctx, value) == [ctx |-> ctx, raised |-> FALSE, value |-> value]
Raised(ctx) == [ctx |-> ctx, raised |-> TRUE, value |-> None]

\* The first catalog entry, in id order, whose stripped name is the term.
RECURSIVE FirstExact(_, _, _)
FirstExact(cat, term, id) ==
    IF id > Len(cat) THEN None
    ELSE IF Strip(cat[id]) = term THEN Some([id |-> id, name |-> cat[id]])
    ELSE FirstExact(cat, term, id + 1)

search_product_by_name(ctx, product_name) ==
    LET search_term == Strip(product_name) IN
    { IF q.out.raised # "none" THEN Raised(q.ctx)
      ELSE IF ~q.out.success THEN Returned(q.ctx, None)
      ELSE Returned(q.ctx, FirstExact(q.ctx.catalog, search_term, 1)) :
      q \in Request(ctx, [Call("search_product") EXCEPT !.name = Some(search_term)],
                    {"ok"}) }

create_product(ctx, name) ==
    { IF q.out.raised # "none" \/ ~q.out.success THEN Raised(q.ctx)
      ELSE LET id == Len(q.ctx.catalog) + 1 IN
           Returned([q.ctx EXCEPT !.catalog = Append(@, Truncate(name))],
                    Some([id |-> id, name |-> Truncate(name)])) :
      q \in Request(ctx, [Call("create_product") EXCEPT !.name = Some(Truncate(name))],
                    {"ok"}) }

get_deal_by_id(ctx, deal_id) ==
    { IF q.out.raised # "none" THEN Raised(q.ctx)
      ELSE IF ~q.out.success THEN Returned(q.ctx, None)
      ELSE Returned(q.ctx, Some(deal_id)) :
      q \in Request(ctx, Call("get_deal"),
                    IF deal_id = ExistingDeal THEN {"ok"}
                    ELSE {"ok_nosuccess", "http404"}) }

get_deal_products(ctx, deal_id) ==
    { IF q.out.raised # "none" THEN Raised(q.ctx)
      ELSE IF ~q.out.success THEN Returned(q.ctx, << >>)
      ELSE Returned(q.ctx, q.ctx.dealProducts) :
      q \in Request(ctx, Call("get_deal_products"), {"ok"}) }

attach_product_to_deal(ctx, deal_id, product_id, item_price, quantity) ==
    { IF q.out.raised # "none" \/ ~q.out.success THEN Raised(q.ctx)
      ELSE LET att == [id |-> Len(q.ctx.dealProducts) + 1, product_id |-> product_id,
                       item_price |-> item_price, quantity |-> quantity] IN
           Returned([q.ctx EXCEPT !.dealProducts = Append(@, att)], Some(att)) :
      q \in Request(ctx, [Call("attach_product") EXCEPT
                              !.product_id = Some(product_id),
                              !.item_price = Some(item_price),
                              !.quantity = Some(quantity)],
                    {"ok"}) }

\* item_price and quantity are Optional: only the given fields are sent.
update_deal_product_attachment(ctx, deal_id, attachment_id, item_price, quantity) ==
    { IF q.out.raised # "none" \/ ~q.out.success THEN Raised(q.ctx)
      ELSE LET old == q.ctx.dealProducts[attachment_id]
               att == [old EXCEPT
                         !.item_price = IF IsNone(item_price) THEN @ ELSE item_price[1],
                         !.quantity = IF IsNone(quantity) THEN @ ELSE quantity[1]] IN
           Returned([q.ctx EXCEPT !.dealProducts[attachment_id] = att], Some(att)) :
      q \in Request(ctx, [Call("update_attachment") EXCEPT
                              !.attachment_id = Some(attachment_id),
                              !.item_price = item_price,
                              !.quantity = quantity],
                    {"ok"}) }

MutatingOps == {"create_product", "attach_product", "update_attachment",
                "delete_attachment"}

-----------------------------------------------------------------------------
(* ProductLinker: catalog resolver and attachment reconciler.  Each operator *)
(* is the set of ways the method can end, one per outcome of its remote      *)
(* calls.                                                                    *)

ProductAction(company, action_type) ==
    [company_name |-> company.company_legal_name,
     w2_count |-> company.w2_employee_count,
     action_type |-> action_type,
     product_id |-> None, attachment_id |-> None,
     old_quantity |-> None, new_quantity |-> None,
     old_price |-> None, new_price |-> None,
     error_message |-> None]

ErrorAction(company, message) ==
    [ProductAction(company, "error") EXCEPT !.error_message = Some(message)]

FoundOrCreated(ctx, raised, product, catalog_action) ==
    [ctx |-> ctx, raised |-> raised, product |-> product,
     catalog_action |-> catalog_action]

\* _find_or_create_product creating the product without searching for it
find_or_create_product_no_search(cfg, ctx, product_name, dry) ==
    { IF c.raised THEN FoundOrCreated(c.ctx, FALSE, None, None)
      ELSE FoundOrCreated(c.ctx, FALSE, c.value, Some("created_catalog")) :
      c \in create_product(ctx, product_name) }

find_or_create_product(cfg, ctx, product_name, dry) ==
    UNION {
      IF s.raised THEN {FoundOrCreated(s.ctx, TRUE, None, None)}
      ELSE IF ~IsNone(s.value)
      THEN {FoundOrCreated(s.ctx, FALSE, s.value, Some("found_catalog"))}
      ELSE IF cfg.auto_create_products
      THEN IF dry
           THEN {FoundOrCreated(s.ctx, FALSE,
                                Some([id |-> DummyProductId, name |-> product_name]),
                                Some("created_catalog"))}
           ELSE { IF c.raised THEN FoundOrCreated(c.ctx, FALSE, None, None)
                  ELSE FoundOrCreated(c.ctx, FALSE, c.value, Some("created_catalog")) :
                  c \in create_product(s.ctx, product_name) }
      ELSE {FoundOrCreated(s.ctx, FALSE, None, None)} :
      s \in search_product_by_name(ctx, product_name) }

Reconciled(ctx, action) == [ctx |-> ctx, action |-> action]

\* _attach_new_product without its dry-run branch
attach_new_product_always(ctx, company, product, quantity, price, deal_id, dry) ==
    { IF a.raised
      THEN Reconciled(a.ctx, [ErrorAction(company, "Failed to attach product")
                                EXCEPT !.product_id = Some(product.id)])
      ELSE Reconciled(a.ctx, [ProductAction(company, "attached_new") EXCEPT
                                !.product_id = Some(product.id),
                                !.attachment_id = Some(a.value[1].id),
                                !.new_quantity = Some(quantity),
                                !.new_price = Some(price)]) :
      a \in attach_product_to_deal(ctx, deal_id, product.id, price, quantity) }

attach_new_product(ctx, company, product, quantity, price, deal_id, dry) ==
    IF dry
    THEN {Reconciled(ctx, [ProductAction(company, "attached_new") EXCEPT
                             !.product_id = Some(product.id),
                             !.new_quantity = Some(quantity),
                             !.new_price = Some(price)])}
    ELSE { IF a.raised
           THEN Reconciled(a.ctx, [ErrorAction(company, "Failed to attach product")
                                     EXCEPT !.product_id = Some(product.id)])
           ELSE Reconciled(a.ctx, [ProductAction(company, "attached_new") EXCEPT
                                     !.product_id = Some(product.id),
                                     !.attachment_id = Some(a.value[1].id),
                                     !.new_quantity = Some(quantity),
                                     !.new_price = Some(price)]) :
           a \in attach_product_to_deal(ctx, deal_id, product.id, price, quantity) }

\* A skipped_exists action that reports the existing values as the new ones.
SkippedExistsAsIs(company, product, existing_attachment, new_quantity, new_price) ==
    [ProductAction(company, "skipped_exists") EXCEPT
       !.product_id = Some(product.id),
       !.attachment_id = Some(existing_attachment.id),
       !.old_quantity = Some(existing_attachment.quantity),
       !.new_quantity = Some(existing_attachment.quantity),
       !.old_price = Some(existing_attachment.item_price),
       !.new_price = Some(existing_attachment.item_price)]

SkippedExists(company, product, existing_attachment, new_quantity, new_price) ==
    [ProductAction(company, "skipped_exists") EXCEPT
       !.product_id = Some(product.id),
       !.attachment_id = Some(existing_attachment.id),
       !.old_quantity = Some(existing_attachment.quantity),
       !.new_quantity = Some(new_quantity),
       !.old_price = Some(existing_attachment.item_price),
       !.new_price = Some(new_price)]

\* An update that sends the quantity alone when both fields changed, leaving
\* the price to a later call.
update_attachment_quantity_first(cfg, ctx, company, product, existing_attachment, new_quantity, new_price, deal_id, dry) ==
    LET quantity_changed == existing_attachment.quantity # new_quantity
        price_changed == Abs(existing_attachment.item_price - new_price) > Tolerance
        w2_action_config == cfg.w2_change_action
        update_quantity ==
            w2_action_config \in {"update_quantity", "update_both"} /\ quantity_changed
        update_price ==
            w2_action_config \in {"update_price", "update_both"} /\ price_changed
        action_type == IF update_quantity THEN "updated_quantity" ELSE "updated_price"
    IN
    IF w2_action_config = "skip" \/ (~update_quantity /\ ~update_price)
    THEN {Reconciled(ctx, SkippedExists(company, product, existing_attachment,
                                        new_quantity, new_price))}
    ELSE IF dry
    THEN {Reconciled(ctx, [ProductAction(company, action_type) EXCEPT
            !.product_id = Some(product.id),
            !.attachment_id = Some(existing_attachment.id),
            !.old_quantity = Some(existing_attachment.quantity),
            !.new_quantity = Some(IF update_quantity THEN new_quantity
                                  ELSE existing_attachment.quantity),
            !.old_price = Some(existing_attachment.item_price),
            !.new_price = Some(IF update_price THEN new_price
                               ELSE existing_attachment.item_price)])}
    ELSE { IF u.raised
           THEN Reconciled(u.ctx, [ErrorAction(company, "Failed to update attachment")
                                     EXCEPT !.product_id = Some(product.id)])
           ELSE Reconciled(u.ctx, [ProductAction(company, action_type) EXCEPT
                  !.product_id = Some(product.id),
                  !.attachment_id = Some(u.value[1].id),
                  !.old_quantity = Some(existing_attachment.quantity),
                  !.new_quantity = Some(u.value[1].quantity),
                  !.old_price = Some(existing_attachment.item_price),
                  !.new_price = Some(u.value[1].item_price)]) :
           u \in update_deal_product_attachment(
                     ctx, deal_id, existing_attachment.id,
                     IF update_price /\ ~update_quantity THEN Some(new_price) ELSE None,
                     IF update_quantity THEN Some(new_quantity) ELSE None) }

\* An update that always sends the computed price, whatever the change
\* policy says.
update_attachment_sends_price(cfg, ctx, company, product, existing_attachment, new_quantity, new_price, deal_id, dry) ==
    LET quantity_changed == existing_attachment.quantity # new_quantity
        price_changed == Abs(existing_attachment.item_price - new_price) > Tolerance
        w2_action_config == cfg.w2_change_action
        update_quantity ==
            w2_action_config \in {"update_quantity", "update_both"} /\ quantity_changed
        update_price ==
            w2_action_config \in {"update_price", "update_both"} /\ price_changed
        action_type == IF update_quantity THEN "updated_quantity" ELSE "updated_price"
    IN
    IF w2_action_config = "skip" \/ (~update_quantity /\ ~update_price)
    THEN {Reconciled(ctx, SkippedExists(company, product, existing_attachment,
                                        new_quantity, new_price))}
    ELSE IF dry
    THEN {Reconciled(ctx, [ProductAction(company, action_type) EXCEPT
            !.product_id = Some(product.id),
            !.attachment_id = Some(existing_attachment.id),
            !.old_quantity = Some(existing_attachment.quantity),
            !.new_quantity = Some(IF update_quantity THEN new_quantity
                                  ELSE existing_attachment.quantity),
            !.old_price = Some(existing_attachment.item_price),
            !.new_price = Some(IF update_price THEN new_price
                               ELSE existing_attachment.item_price)])}
    ELSE { IF u.raised
           THEN Reconciled(u.ctx, [ErrorAction(company, "Failed to update attachment")
                                     EXCEPT !.product_id = Some(product.id)])
           ELSE Reconciled(u.ctx, [ProductAction(company, action_type) EXCEPT
                  !.product_id = Some(product.id),
                  !.attachment_id = Some(u.value[1].id),
                  !.old_quantity = Some(existing_attachment.quantity),
                  !.new_quantity = Some(u.value[1].quantity),
                  !.old_price = Some(existing_attachment.item_price),
                  !.new_price = Some(u.value[1].item_price)]) :
           u \in update_deal_product_attachment(
                     ctx, deal_id, existing_attachment.id,
                     Some(new_price),
                     IF update_quantity THEN Some(new_quantity) ELSE None) }

update_attachment(cfg, ctx, company, product, existing_attachment, new_quantity, new_price, deal_id, dry) ==
    LET quantity_changed == existing_attachment.quantity # new_quantity
        price_changed == Abs(existing_attachment.item_price - new_price) > Tolerance
        w2_action_config == cfg.w2_change_action
        update_quantity ==
            w2_action_config \in {"update_quantity", "update_both"} /\ quantity_changed
        update_price ==
            w2_action_config \in {"update_price", "update_both"} /\ price_changed
        action_type == IF update_quantity THEN "updated_quantity" ELSE "updated_price"
    IN
    IF w2_action_config = "skip" \/ (~update_quantity /\ ~update_price)
    THEN {Reconciled(ctx, SkippedExists(company, product, existing_attachment,
                                        new_quantity, new_price))}
    ELSE IF dry
    THEN {Reconciled(ctx, [ProductAction(company, action_type) EXCEPT
            !.product_id = Some(product.id),
            !.attachment_id = Some(existing_attachment.id),
            !.old_quantity = Some(existing_attachment.quantity),
            !.new_quantity = Some(IF update_quantity THEN new_quantity
                                  ELSE existing_attachment.quantity),
            !.old_price = Some(existing_attachment.item_price),
            !.new_price = Some(IF update_price THEN new_price
                               ELSE existing_attachment.item_price)])}
    ELSE { IF u.raised
           THEN Reconciled(u.ctx, [ErrorAction(company, "Failed to update attachment")
                                     EXCEPT !.product_id = Some(product.id)])
           ELSE Reconciled(u.ctx, [ProductAction(company, action_type) EXCEPT
                  !.product_id = Some(product.id),
                  !.attachment_id = Some(u.value[1].id),
                  !.old_quantity = Some(existing_attachment.quantity),
                  !.new_quantity = Some(u.value[1].quantity),
                  !.old_price = Some(existing_attachment.item_price),
                  !.new_price = Some(u.value[1].item_price)]) :
           u \in update_deal_product_attachment(
                     ctx, deal_id, existing_attachment.id,
                     IF update_price THEN Some(new_price) ELSE None,
                     IF update_quantity THEN Some(new_quantity) ELSE None) }

\* Duplicate handling that treats the policy "error" as "update".
handle_duplicate_attachment_no_error(cfg, ctx, company, product, existing_attachment, new_quantity, new_price, deal_id, dry) ==
    LET quantity_matches == existing_attachment.quantity = new_quantity
        price_matches == Abs(existing_attachment.item_price - new_price) < Tolerance
    IN
    IF (quantity_matches /\ price_matches) \/ cfg.duplicate_attachment_action = "skip"
    THEN {Reconciled(ctx, SkippedExists(company, product, existing_attachment,
                                        new_quantity, new_price))}
    ELSE IF cfg.duplicate_attachment_action \in {"update", "error"}
    THEN update_attachment(cfg, ctx, company, product, existing_attachment,
                           new_quantity, new_price, deal_id, dry)
    ELSE attach_new_product(ctx, company, product, new_quantity, new_price,
                            deal_id, dry)

\* Duplicate handling without the check for matching values: the policy
\* decides at once.
handle_duplicate_attachment_no_match_check(cfg, ctx, company, product, existing_attachment, new_quantity, new_price, deal_id, dry) ==
    LET action_type_config == cfg.duplicate_attachment_action IN
    IF action_type_config = "skip"
    THEN {Reconciled(ctx, SkippedExists(company, product, existing_attachment,
                                        new_quantity, new_price))}
    ELSE IF action_type_config = "update"
    THEN update_attachment(cfg, ctx, company, product, existing_attachment,
                           new_quantity, new_price, deal_id, dry)
    ELSE IF action_type_config = "error"
    THEN {Reconciled(ctx, [ErrorAction(company, "Product already attached")
                             EXCEPT !.product_id = Some(product.id)])}
    ELSE attach_new_product(ctx, company, product, new_quantity, new_price,
                            deal_id, dry)

\* Duplicate handling that treats the policy "force_new" as "update".
handle_duplicate_attachment_force_updates(cfg, ctx, company, product, existing_attachment, new_quantity, new_price, deal_id, dry) ==
    LET quantity_matches == existing_attachment.quantity = new_quantity
        price_matches == Abs(existing_attachment.item_price - new_price) < Tolerance
    IN
    IF (quantity_matches /\ price_matches) \/ cfg.duplicate_attachment_action = "skip"
    THEN {Reconciled(ctx, SkippedExists(company, product, existing_attachment,
                                        new_quantity, new_price))}
    ELSE IF cfg.duplicate_attachment_action = "error"
    THEN {Reconciled(ctx, [ErrorAction(company, "Product already attached")
                             EXCEPT !.product_id = Some(product.id)])}
    ELSE update_attachment(cfg, ctx, company, product, existing_attachment,
                           new_quantity, new_price, deal_id, dry)

handle_duplicate_attachment(cfg, ctx, company, product, existing_attachment, new_quantity, new_price, deal_id, dry) ==
    LET action_type_config == cfg.duplicate_attachment_action
        quantity_matches == existing_attachment.quantity = new_quantity
        price_matches == Abs(existing_attachment.item_price - new_price) < Tolerance
    IN
    IF quantity_matches /\ price_matches
    THEN {Reconciled(ctx, SkippedExists(company, product, existing_attachment,
                                        new_quantity, new_price))}
    ELSE IF action_type_config = "skip"
    THEN {Reconciled(ctx, SkippedExists(company, product, existing_attachment,
                                        new_quantity, new_price))}
    ELSE IF action_type_config = "update"
    THEN update_attachment(cfg, ctx, company, product, existing_attachment,
                           new_quantity, new_price, deal_id, dry)
    ELSE IF action_type_config = "error"
    THEN {Reconciled(ctx, [ErrorAction(company, "Product already attached")
                             EXCEPT !.product_id = Some(product.id)])}
    ELSE attach_new_product(ctx, company, product, new_quantity, new_price,
                            deal_id, dry)

Processed(ctx, raised, action) == [ctx |-> ctx, raised |-> raised, action |-> action]

\* The try block of _process_company: it ends with an action, or raised.
process_company_try(cfg, ctx, company, deal_id, attachments, dry) ==
    LET validation_error == validate_company(cfg, company)
        product_name == format_product_name(cfg, company.company_legal_name)
        computed == calculate_quantity_and_price(cfg, company.w2_employee_count)
    IN
    IF ~IsNone(validation_error)
    THEN {Processed(ctx, FALSE, ErrorAction(company, validation_error[1]))}
    ELSE UNION {
      IF f.raised THEN {Processed(f.ctx, TRUE, ErrorAction(company, "APIError"))}
      ELSE IF IsNone(f.product)
      THEN {Processed(f.ctx, FALSE,
                      ErrorAction(company, "Failed to find or create product"))}
      ELSE LET product == f.product[1]
               existing_attachment == find_existing_attachment(product.id, attachments)
               reconciled ==
                   IF ~IsNone(existing_attachment)
                   THEN handle_duplicate_attachment(
                            cfg, f.ctx, company, product, existing_attachment[1],
                            computed.quantity, computed.price, deal_id, dry)
                   ELSE attach_new_product(f.ctx, company, product, computed.quantity,
                                           computed.price, deal_id, dry)
           IN { Processed(r.ctx, FALSE,
                   IF ~IsNone(f.catalog_action) /\ r.action.action_type # "error"
                   THEN [r.action EXCEPT !.action_type = f.catalog_action[1]]
                   ELSE r.action) : r \in reconciled } :
      f \in find_or_create_product(cfg, ctx, product_name, dry) }

\* _process_company without its except clause: an exception leaves it.
process_company_uncaught(cfg, ctx, company, deal_id, attachments, dry) ==
    process_company_try(cfg, ctx, company, deal_id, attachments, dry)

\* _process_company: "except Exception" turns whatever was raised into an
\* error action.
process_company(cfg, ctx, company, deal_id, attachments, dry) ==
    { IF r.raised THEN Processed(r.ctx, FALSE, r.action) ELSE r :
      r \in process_company_try(cfg, ctx, company, deal_id, attachments, dry) }

-----------------------------------------------------------------------------
(* Inputs: configurations, companies, submissions and remote states *)

\* Config._get_standard_profile, with ITEM_PRICE_PER_EMPLOYEE set to 2.0
StandardConfig ==
    [process_companies |-> "additional_only",
     product_name_format |-> "company_name",
     product_name_prefix |-> << >>,
     value_calculation_mode |-> "w2_count_times_price",
     item_price_per_employee |-> 2 * PriceScale,
     fixed_product_price |-> 100 * PriceScale,
     quantity_mode |-> "w2_count",
     custom_quantity |-> 1,
     duplicate_attachment_action |-> "update",
     w2_change_action |-> "update_both",
     auto_create_products |-> TRUE,
     skip_orphaned_deals |-> TRUE,
     skip_missing_w2 |-> TRUE,
     skip_zero_w2 |-> TRUE,
     min_w2_count |-> 0,
     max_w2_count |-> 10000]

DuplicateActions == {"update", "skip", "error", "force_new"}
W2ChangeActions == {"update_quantity", "update_price", "update_both", "skip"}
ValueCalculationModes == {"w2_count", "w2_count_times_price", "fixed_price"}
QuantityModes == {"w2_count", "always_one", "custom"}
ProcessCompaniesModes == {"additional_only", "primary_only", "both"}

\* every change policy under the duplicate policy that reads it (update),
\* every other duplicate policy, the policies that hold back a price, with a
\* fixed price that no attachment has, and the standard configuration
\* without auto-create, with a missing W2 count allowed, and with orphaned
\* deals not skipped
PolicyConfigs ==
    { [StandardConfig EXCEPT !.w2_change_action = w] : w \in W2ChangeActions }
    \cup { [StandardConfig EXCEPT !.duplicate_attachment_action = d] :
             d \in DuplicateActions }
    \cup { [StandardConfig EXCEPT !.value_calculation_mode = "fixed_price",
                                  !.duplicate_attachment_action = p[1],
                                  !.w2_change_action = p[2]] :
             p \in { <<"error", "update_both">>, <<"update", "update_quantity">>,
                     <<"update", "update_price">> } }
    \cup { [StandardConfig EXCEPT !.auto_create_products = FALSE],
           [StandardConfig EXCEPT !.skip_missing_w2 = FALSE],
           [StandardConfig EXCEPT !.skip_orphaned_deals = FALSE] }

\* every (calculation mode, quantity mode) pair, with a fixed price of 5.0
\* and a custom quantity of 4, which no other mode yields for the companies
\* below
ModeConfigs ==
    { [StandardConfig EXCEPT !.value_calculation_mode = c, !.quantity_mode = q,
                             !.fixed_product_price = 5 * PriceScale,
                             !.custom_quantity = 4] :
      c \in ValueCalculationModes, q \in QuantityModes }

\* the settings the submission loop reads
LoopConfigs ==
    { [StandardConfig EXCEPT !.skip_orphaned_deals = o, !.process_companies = m] :
      o \in BOOLEAN, m \in ProcessCompaniesModes }

Company(name, w2) == [company_legal_name |-> name, w2_employee_count |-> w2]

\* "a" and "a." format to the same product name, "b" to another; one
\* company has no W2 count
Companies ==
    { Company(<<"a">>, Some(2)), Company(<<"a", ".">>, Some(3)),
      Company(<<"b">>, Some(3)), Company(<<"a">>, None) }

SeqsUpTo(S, n) == UNION { [1..m -> S] : m \in 0..n }

Submission(deal_id, primary_company, additional_companies) ==
    [deal_id |-> deal_id, primary_company |-> primary_company,
     additional_companies |-> additional_companies]

\* one submission on the existing deal, with any list of different companies
ReconcileSubmissions ==
    { <<Submission(Some(ExistingDeal), None, cs)>> :
      cs \in { l \in SeqsUpTo(Companies, MaxCompanies) :
                 \A j, k \in 1..Len(l) : j # k => l[j] # l[k] } }

LoopCompany == Company(<<"a">>, Some(2))

\* several submissions, as link_submission accepts them: without a deal id,
\* on a missing deal, and on the existing deal with a primary company,
\* additional companies or both
LoopSubmissions ==
    { s \in SeqsUpTo({ Submission(None, None, <<LoopCompany>>),
                        Submission(Some(MissingDeal), None, <<LoopCompany>>) }
                      \cup { Submission(Some(ExistingDeal), pc_cs[1], pc_cs[2]) :
                               pc_cs \in { <<None, <<LoopCompany>> >>,
                                           <<Some(LoopCompany), << >> >>,
                                           <<Some(LoopCompany), <<LoopCompany>> >> } },
                     MaxSubs) : s # << >> }

Attachment(id, product_id, quantity, item_price) ==
    [id |-> id, product_id |-> product_id, item_price |-> item_price,
     quantity |-> quantity]

\* the catalog and the line items of the existing deal before the first run:
\* nothing; the product "a" alone; the products "b" and "a", each attached
\* once with quantity 2 at 2.0
Attached ==
    [catalog |-> << <<"b">>, <<"a">> >>,
     dealProducts |-> <<Attachment(1, 1, 2, 2 * PriceScale),
                        Attachment(2, 2, 2, 2 * PriceScale)>>]

RemoteStates ==
    { [catalog |-> << >>, dealProducts |-> << >>],
      [catalog |-> << <<"a">> >>, dealProducts |-> << >>],
      Attached }

-----------------------------------------------------------------------------
(* The state machine *)

\* the state in which the main loop starts
\* The arguments of a method applied on its own and what it returned; one
\* field for each kind of value, so that every probe is a record of one shape.
Probe(cfg, company) ==
    [op |-> "none", cfg |-> cfg, company |-> company, verdict |-> None,
     product_name |-> << >>, quantity |-> 0, price |-> 0, returned |-> << >>]

NoProbe == Probe(StandardConfig, Company(<<"a">>, None))

Started ==
    /\ run = 1
    /\ dry_run \in BOOLEAN
    /\ api_call_count = 0
    /\ pc = "loop"
    /\ i = 1
    /\ results = << >>
    /\ companies = << >>
    /\ current_attachments = << >>
    /\ actions = << >>
    /\ total_value = 0
    /\ calls = << >>
    /\ faults = 0
    /\ exception = "none"
    /\ history = << >>
    /\ request = NoRequest
    /\ probe = NoProbe

\* one submission on the existing deal, under every policy
InitReconcile ==
    /\ config \in PolicyConfigs \cup ModeConfigs
    /\ submissions \in ReconcileSubmissions
    /\ \E r \in RemoteStates :
          /\ catalog = r.catalog
          /\ dealProducts = r.dealProducts
    /\ Started

\* several submissions
InitLoop ==
    /\ config \in LoopConfigs
    /\ submissions \in LoopSubmissions
    /\ catalog = Attached.catalog
    /\ dealProducts = Attached.dealProducts
    /\ Started

Init == InitReconcile \/ InitLoop

LinkResult(submission_id, deal_id, status, companies_processed, acts, value, message) ==
    [submission_id |-> submission_id, deal_id |-> deal_id, status |-> status,
     companies_processed |-> companies_processed, actions |-> acts,
     total_value_added |-> value, error_message |-> message]

\* link_submission returns: the main loop appends the result, reports it and
\* goes on to the next submission
Return(result) ==
    /\ results' = Append(results, result)
    /\ i' = i + 1
    /\ pc' = "loop"
    /\ companies' = << >>
    /\ current_attachments' = << >>
    /\ actions' = << >>
    /\ total_value' = 0

\* link_submission is left by an exception, which the main loop does not catch
Raise(name) ==
    /\ exception' = name
    /\ pc' = "raised"
    /\ UNCHANGED <<results, i, companies, current_attachments, actions, total_value>>

Apply(ctx) ==
    /\ catalog' = ctx.catalog
    /\ dealProducts' = ctx.dealProducts
    /\ api_call_count' = ctx.api_call_count
    /\ calls' = ctx.calls
    /\ faults' = ctx.faults

\* A value sum that counts every action that is not an error.
SuccessTypesAndCatalog ==
    {"attached_new", "updated_quantity", "updated_price", "skipped_exists",
     "found_catalog", "created_catalog"}

SuccessTypes == {"attached_new", "updated_quantity", "updated_price"}

\* the main loop calls link_submission, which returns at once for a
\* submission without deal id or without companies
BeginSubmission ==
    /\ pc = "loop"
    /\ i <= Len(submissions)
    /\ LET submission == submissions[i]
           cs == get_companies_to_process(config, submission) IN
       IF IsNone(submission.deal_id)
       THEN /\ Return(LinkResult(i, None, "no_deal_id", 0, << >>, 0,
                                 Some("No dealId in submission")))
       ELSE IF cs = << >>
       THEN /\ Return(LinkResult(i, submission.deal_id, "no_companies", 0, << >>, 0,
                                 Some("No companies to process")))
       ELSE /\ pc' = "verify"
            /\ companies' = cs
            /\ UNCHANGED <<results, i, current_attachments, actions, total_value>>
    /\ calls' = << >>
    /\ UNCHANGED <<probe, request, config, submissions, catalog, dealProducts, run, dry_run,
                   api_call_count, faults, exception, history>>

\* A deal verification that returns the outcome "orphaned" for a missing
\* deal whatever skip_orphaned_deals says.
VerifyDealAlwaysSkips ==
    /\ pc = "verify"
    /\ LET deal_id == submissions[i].deal_id IN
       \E d \in get_deal_by_id(Ctx, deal_id[1]) :
          /\ Apply(d.ctx)
          /\ IF d.raised
             THEN /\ Return(LinkResult(i, deal_id, "failed_error", 0, << >>, 0,
                                       Some("Failed to verify deal")))
                  /\ UNCHANGED exception
             ELSE IF IsNone(d.value)
             THEN /\ Return(LinkResult(i, deal_id, "orphaned", 0, << >>, 0,
                                       Some("Deal not found in Pipedrive")))
                  /\ UNCHANGED exception
             ELSE /\ pc' = "fetch"
                  /\ UNCHANGED <<results, i, companies, current_attachments, actions,
                                 total_value, exception>>
    /\ UNCHANGED <<probe, request, config, submissions, run, dry_run, history>>

VerifyDeal ==
    /\ pc = "verify"
    /\ LET deal_id == submissions[i].deal_id IN
       \E d \in get_deal_by_id(Ctx, deal_id[1]) :
          /\ Apply(d.ctx)
          /\ IF d.raised
             THEN /\ Return(LinkResult(i, deal_id, "failed_error", 0, << >>, 0,
                                       Some("Failed to verify deal")))
                  /\ UNCHANGED exception
             ELSE IF IsNone(d.value)
             THEN IF config.skip_orphaned_deals
                  THEN /\ Return(LinkResult(i, deal_id, "orphaned", 0, << >>, 0,
                                            Some("Deal not found in Pipedrive")))
                       /\ UNCHANGED exception
                  ELSE Raise("OrphanedDealError")
             ELSE /\ pc' = "fetch"
                  /\ UNCHANGED <<results, i, companies, current_attachments, actions,
                                 total_value, exception>>
    /\ UNCHANGED <<probe, request, config, submissions, run, dry_run, history>>

\* A fetch of the attachment list that goes on with an empty list when the
\* remote call failed.
FetchDealProductsLenient ==
    /\ pc = "fetch"
    /\ LET deal_id == submissions[i].deal_id IN
       \E g \in get_deal_products(Ctx, deal_id[1]) :
          /\ Apply(g.ctx)
          /\ pc' = "company"
          /\ current_attachments' = g.value
          /\ actions' = << >>
          /\ total_value' = 0
          /\ UNCHANGED <<results, i, companies>>
    /\ UNCHANGED <<probe, request, config, submissions, run, dry_run, exception, history>>

FetchDealProducts ==
    /\ pc = "fetch"
    /\ LET deal_id == submissions[i].deal_id IN
       \E g \in get_deal_products(Ctx, deal_id[1]) :
          /\ Apply(g.ctx)
          /\ IF g.raised
             THEN Return(LinkResult(i, deal_id, "failed_error", 0, << >>, 0,
                                    Some("Failed to fetch deal products")))
             ELSE /\ pc' = "company"
                  /\ current_attachments' = g.value
                  /\ actions' = << >>
                  /\ total_value' = 0
                  /\ UNCHANGED <<results, i, companies>>
    /\ UNCHANGED <<probe, request, config, submissions, run, dry_run, exception, history>>

\* A turn of the loop that fetches the attachment list of the deal anew for
\* its company.
ProcessCompanyRefetching ==
    /\ pc = "company"
    /\ Len(actions) < Len(companies)
    /\ LET company == companies[Len(actions) + 1]
           deal_id == submissions[i].deal_id IN
       \E g \in get_deal_products(Ctx, deal_id[1]) :
       \E r \in process_company(config, g.ctx, company, deal_id[1], g.value, dry_run) :
          /\ Apply(r.ctx)
          /\ actions' = Append(actions, r.action)
          /\ total_value' =
                IF /\ r.action.action_type \in SuccessTypes
                   /\ ~IsNone(r.action.new_quantity)
                   /\ ~IsNone(r.action.new_price)
                THEN total_value + r.action.new_quantity[1] * r.action.new_price[1]
                ELSE total_value
          /\ UNCHANGED <<pc, results, i, companies, current_attachments, exception>>
    /\ UNCHANGED <<probe, request, config, submissions, run, dry_run, history>>

\* one turn of the loop over companies
ProcessCompany ==
    /\ pc = "company"
    /\ Len(actions) < Len(companies)
    /\ LET company == companies[Len(actions) + 1]
           deal_id == submissions[i].deal_id IN
       \E r \in process_company(config, Ctx, company, deal_id[1],
                                current_attachments, dry_run) :
          /\ Apply(r.ctx)
          /\ IF r.raised
             THEN Raise("APIError")
             ELSE /\ actions' = Append(actions, r.action)
                  /\ total_value' =
                        IF /\ r.action.action_type \in SuccessTypes
                           /\ ~IsNone(r.action.new_quantity)
                           /\ ~IsNone(r.action.new_price)
                        THEN total_value + r.action.new_quantity[1] * r.action.new_price[1]
                        ELSE total_value
                  /\ UNCHANGED <<pc, results, i, companies, current_attachments,
                                 exception>>
    /\ UNCHANGED <<probe, request, config, submissions, run, dry_run, history>>

overall_status(acts) ==
    LET has_success == \E k \in 1..Len(acts) : acts[k].action_type \in SuccessTypes
        has_errors == \E k \in 1..Len(acts) : acts[k].action_type = "error"
    IN IF has_errors /\ ~has_success THEN "failed_error"
       ELSE IF has_success THEN "success"
       ELSE IF \E k \in 1..Len(acts) : acts[k].action_type = "skipped_exists"
       THEN "skipped"
       ELSE "failed_error"

\* after the loop over companies: the overall status and the result
FinishSubmission ==
    /\ pc = "company"
    /\ Len(actions) = Len(companies)
    /\ Return(LinkResult(i, submissions[i].deal_id, overall_status(actions),
                         Len(companies), actions, total_value, None))
    /\ UNCHANGED <<probe, request, config, submissions, catalog, dealProducts, run, dry_run,
                   api_call_count, calls, faults, exception, history>>

exit_code(res) ==
    IF \E k \in 1..Len(res) : res[k].status = "failed_error" THEN 1 ELSE 0

Finished(code) ==
    [dry_run |-> dry_run, results |-> results, faults |-> faults,
     exception |-> exception, exit_code |-> code]

\* the main loop is over: summary and exit code
EndRun ==
    /\ pc = "loop"
    /\ i > Len(submissions)
    /\ history' = Append(history, Finished(exit_code(results)))
    /\ pc' = "exited"
    /\ UNCHANGED <<probe, request, config, submissions, catalog, dealProducts, run, dry_run,
                   api_call_count, i, results, companies, current_attachments,
                   actions, total_value, calls, faults, exception>>

\* main(): an exception that left the loop ends the invocation with code 1
UnexpectedError ==
    /\ pc = "raised"
    /\ history' = Append(history, Finished(1))
    /\ pc' = "exited"
    /\ UNCHANGED <<probe, request, config, submissions, catalog, dealProducts, run, dry_run,
                   api_call_count, i, results, companies, current_attachments,
                   actions, total_value, calls, faults, exception>>

\* the tool is invoked again, with the same input and configuration, against
\* the remote state the earlier invocations left
Rerun ==
    /\ pc = "exited"
    /\ run < MaxRuns
    /\ run' = run + 1
    /\ dry_run' \in BOOLEAN
    /\ api_call_count' = 0
    /\ pc' = "loop"
    /\ i' = 1
    /\ results' = << >>
    /\ companies' = << >>
    /\ current_attachments' = << >>
    /\ actions' = << >>
    /\ total_value' = 0
    /\ calls' = << >>
    /\ faults' = 0
    /\ exception' = "none"
    /\ UNCHANGED <<probe, request, config, submissions, catalog, dealProducts, history>>

\* one invocation of the tool
Next ==
    \/ BeginSubmission
    \/ VerifyDeal
    \/ FetchDealProducts
    \/ ProcessCompany
    \/ FinishSubmission
    \/ EndRun
    \/ UnexpectedError

Spec == Init /\ [][Next]_vars

\* repeated invocations
NextRerun == Next \/ Rerun

SpecRerun == InitReconcile /\ [][NextRerun]_vars

-----------------------------------------------------------------------------
(* The gateway on its own: a client on which calls are made one after the    *)
(* other, every attempt of a call meeting any of the attempt results         *)

InitGateway ==
    /\ config = StandardConfig
    /\ submissions = << >>
    /\ catalog = << >>
    /\ dealProducts = << >>
    /\ run = 1
    /\ dry_run = FALSE
    /\ api_call_count = 0
    /\ pc = "gateway"
    /\ i = 1
    /\ results = << >>
    /\ companies = << >>
    /\ current_attachments = << >>
    /\ actions = << >>
    /\ total_value = 0
    /\ calls = << >>
    /\ faults = 0
    /\ exception = "none"
    /\ history = << >>
    /\ request = NoRequest
    /\ probe = NoProbe

\* a method of the client calls _make_request
SendRequest ==
    /\ pc = "gateway"
    /\ request.status # "trying"
    /\ request.n < MaxCalls
    /\ \E method \in {"GET", "POST"} :
          request' = [NoRequest EXCEPT !.status = "trying", !.method = method,
                                      !.n = request.n + 1,
                                      !.issued = request.issued]
    /\ UNCHANGED <<probe, config, submissions, catalog, dealProducts, run, dry_run,
                   api_call_count, pc, i, results, companies, current_attachments,
                   actions, total_value, calls, faults, exception, history>>

\* one HTTP attempt of the call in flight
Attempt ==
    /\ pc = "gateway"
    /\ request.status = "trying"
    /\ \E r \in GatewayResults :
          /\ api_call_count' = count_attempt(api_call_count, r)
          /\ request' = attempt_step(request, r)
    /\ UNCHANGED <<probe, config, submissions, catalog, dealProducts, run, dry_run,
                   pc, i, results, companies, current_attachments,
                   actions, total_value, calls, faults, exception, history>>

NextGateway == SendRequest \/ Attempt

SpecGateway == InitGateway /\ [][NextGateway]_vars

-----------------------------------------------------------------------------
(* The policy resolver on its own: _validate_company, _format_product_name   *)
(* and _calculate_quantity_and_price applied once to a configuration and a   *)
(* company                                                                   *)

\* W2 counts as int() parses them: any integer, here from -2 to MaxW2
W2Counts == {None} \cup { Some(w) : w \in (0 - 2)..MaxW2 }

\* Names as the fetch hands them over: stripped and not empty.
ResolverNames ==
    { <<"a">>, <<"a", ".">>, <<"a", ".", ".">>, <<"a", " ", ".">> }

ResolverCompanies == { Company(n, w) : n \in ResolverNames, w \in W2Counts }

\* MIN_W2_COUNT and MAX_W2_COUNT are any integers of the environment; a
\* positive maximum below the minimum is a configuration error that ends
\* main() before the linker is built.
ValidationConfigs ==
    { [StandardConfig EXCEPT !.skip_missing_w2 = m, !.skip_zero_w2 = z,
                             !.min_w2_count = b[1], !.max_w2_count = b[2]] :
      m \in BOOLEAN, z \in BOOLEAN,
      b \in { x \in ((0 - 1)..MaxW2) \X ((0 - 1)..MaxW2) :
                ~(x[2] > 0 /\ x[2] < x[1]) } }

ProductNameFormats == {"company_name", "company_name_with_prefix", "custom_format"}

FormatConfigs ==
    { [StandardConfig EXCEPT !.product_name_format = f, !.product_name_prefix = x] :
      f \in ProductNameFormats, x \in { << >>, <<"P", " ">> } }

ResolverConfigs == ValidationConfigs \cup FormatConfigs \cup ModeConfigs

InitResolver ==
    /\ config = StandardConfig
    /\ submissions = << >>
    /\ catalog = << >>
    /\ dealProducts = << >>
    /\ run = 1
    /\ dry_run = FALSE
    /\ api_call_count = 0
    /\ pc = "resolver"
    /\ i = 1
    /\ results = << >>
    /\ companies = << >>
    /\ current_attachments = << >>
    /\ actions = << >>
    /\ total_value = 0
    /\ calls = << >>
    /\ faults = 0
    /\ exception = "none"
    /\ history = << >>
    /\ request = NoRequest
    /\ probe \in { Probe(c, co) : c \in ResolverConfigs, co \in ResolverCompanies }

Unprobed ==
    UNCHANGED <<config, submissions, catalog, dealProducts, run, dry_run,
                api_call_count, pc, i, results, companies, current_attachments,
                actions, total_value, calls, faults, exception, history, request>>

ValidateCompany ==
    /\ pc = "resolver"
    /\ probe.op = "none"
    /\ probe' = [probe EXCEPT !.op = "validate_company",
                              !.verdict = validate_company(probe.cfg, probe.company)]
    /\ Unprobed

FormatProductName ==
    /\ pc = "resolver"
    /\ probe.op = "none"
    /\ probe' = [probe EXCEPT
                   !.op = "format_product_name",
                   !.product_name =
                       format_product_name(probe.cfg, probe.company.company_legal_name)]
    /\ Unprobed

CalculateQuantityAndPrice ==
    /\ pc = "resolver"
    /\ probe.op = "none"
    /\ LET qp == calculate_quantity_and_price(probe.cfg,
                                              probe.company.w2_employee_count) IN
       probe' = [probe EXCEPT !.op = "calculate_quantity_and_price",
                              !.quantity = qp.quantity, !.price = qp.price]
    /\ Unprobed

NextResolver == ValidateCompany \/ FormatProductName \/ CalculateQuantityAndPrice

SpecResolver == InitResolver /\ [][NextResolver]_vars

-----------------------------------------------------------------------------
(* The catalog resolver on its own: _find_or_create_product called up to     *)
(* MaxFinds times in sequence with the same product name, every search       *)
(* seeing what the earlier calls created                                     *)

\* a name of n characters
NameOfLength(n) == [k \in 1..n |-> "x"]

\* product names as _format_product_name hands them over: short ones, one
\* that ends in a blank, one as long as create_product allows and one a
\* character longer
CatalogNames ==
    { <<"a">>, <<"b">>, <<"a", " ">>, NameOfLength(NameLimit), NameOfLength(NameLimit + 1) }

InitCatalog ==
    /\ config \in { StandardConfig, [StandardConfig EXCEPT !.auto_create_products = FALSE] }
    /\ submissions = << >>
    /\ catalog \in { << >>, << <<"a">> >>, << <<"b">>, <<"a">> >> }
    /\ dealProducts = << >>
    /\ run = 1
    /\ dry_run \in BOOLEAN
    /\ api_call_count = 0
    /\ pc = "catalog"
    /\ i = 1
    /\ results = << >>
    /\ companies = << >>
    /\ current_attachments = << >>
    /\ actions = << >>
    /\ total_value = 0
    /\ calls = << >>
    /\ faults = 0
    /\ exception = "none"
    /\ history = << >>
    /\ request = NoRequest
    /\ \E name \in CatalogNames :
          probe = [NoProbe EXCEPT !.op = "find_or_create_product",
                                  !.product_name = name]

FindOrCreateProduct ==
    /\ pc = "catalog"
    /\ Len(probe.returned) < MaxFinds
    /\ \E f \in find_or_create_product(config, Ctx, probe.product_name, dry_run) :
          /\ Apply(f.ctx)
          /\ probe' = [probe EXCEPT !.returned =
                          Append(@, [raised |-> f.raised, product |-> f.product,
                                     catalog_action |-> f.catalog_action])]
    /\ UNCHANGED <<config, submissions, run, dry_run, pc, i, results, companies,
                   current_attachments, actions, total_value, exception, history,
                   request>>

NextCatalog == FindOrCreateProduct

SpecCatalog == InitCatalog /\ [][NextCatalog]_vars

-----------------------------------------------------------------------------
(* The reconciler on its own: _handle_duplicate_attachment applied once to   *)
(* the attachment that match detection found for the product of a company,   *)
(* under every duplicate policy and every change policy                      *)

\* Prices of 0.02 per employee and 0.04 fixed: next to an attachment at 0.01
\* they give the difference of exactly 0.01, which the floating-point
\* subtraction of the code yields exactly for these values (0.02 - 0.01 is
\* 0.01), as the subtraction of hundredths does here.
DuplicateConfigs ==
    { [StandardConfig EXCEPT !.duplicate_attachment_action = d,
                             !.w2_change_action = w,
                             !.value_calculation_mode = m,
                             !.item_price_per_employee = 2,
                             !.fixed_product_price = 4] :
      d \in DuplicateActions, w \in W2ChangeActions,
      m \in {"w2_count_times_price", "fixed_price"} }

\* the product of the company and the one attachment the deal holds for it
MatchedProduct == [id |-> 1, name |-> <<"a">>]

ExistingAttachments ==
    { Attachment(1, MatchedProduct.id, q, p) : q \in {2, 3}, p \in {1, 2, 4} }

InitDuplicate ==
    /\ config \in DuplicateConfigs
    /\ submissions = << >>
    /\ catalog = << MatchedProduct.name >>
    /\ \E a \in ExistingAttachments :
          /\ dealProducts = <<a>>
          /\ current_attachments = <<a>>
    /\ run = 1
    /\ dry_run \in BOOLEAN
    /\ api_call_count = 0
    /\ pc = "duplicate"
    /\ i = 1
    /\ results = << >>
    /\ \E w \in {2, 3} : companies = << Company(MatchedProduct.name, Some(w)) >>
    /\ actions = << >>
    /\ total_value = 0
    /\ calls = << >>
    /\ faults = 0
    /\ exception = "none"
    /\ history = << >>
    /\ request = NoRequest
    /\ LET computed == calculate_quantity_and_price(config, companies[1].w2_employee_count) IN
       probe = [Probe(config, companies[1]) EXCEPT
                  !.op = "handle_duplicate_attachment",
                  !.product_name = MatchedProduct.name,
                  !.quantity = computed.quantity,
                  !.price = computed.price]

HandleDuplicateAttachment ==
    /\ pc = "duplicate"
    /\ probe.returned = << >>
    /\ LET existing_attachment ==
               find_existing_attachment(MatchedProduct.id, current_attachments) IN
       \E r \in handle_duplicate_attachment(config, Ctx, probe.company, MatchedProduct,
                                             existing_attachment[1], probe.quantity,
                                             probe.price, ExistingDeal, dry_run) :
          /\ Apply(r.ctx)
          /\ probe' = [probe EXCEPT !.returned = <<r.action>>]
    /\ UNCHANGED <<config, submissions, run, dry_run, pc, i, results, companies,
                   current_attachments, actions, total_value, exception, history,
                   request>>

NextDuplicate == HandleDuplicateAttachment

SpecDuplicate == InitDuplicate /\ [][NextDuplicate]_vars

-----------------------------------------------------------------------------
(* Vocabulary of the properties *)

Last(seq) == seq[Len(seq)]

\* the loop over companies is over and link_submission is about to return
LoopDone == pc = "company" /\ Len(actions) = Len(companies)

Computed(k) == calculate_quantity_and_price(config, companies[k].w2_employee_count)

Valid(k) == IsNone(validate_company(config, companies[k]))

\* the calls of the log issued for company k that changed, or were to
\* change, the remote side
MutatingCalls(k) ==
    { n \in 1..Len(calls) : calls[n].company = k /\ calls[n].op \in MutatingOps }

AttachmentWrites(k) ==
    { n \in 1..Len(calls) :
        /\ calls[n].company = k
        /\ calls[n].op \in {"attach_product", "update_attachment"} }

AttachmentsOf(product_id) ==
    { n \in 1..Len(dealProducts) : dealProducts[n].product_id = product_id }

\* the attachment that match detection finds for the product of action k in
\* the list fetched for this submission
Matched(k) ==
    IF IsNone(actions[k].product_id) THEN None
    ELSE find_existing_attachment(actions[k].product_id[1], current_attachments)

\* the fetched list holds an attachment for company k's product whose
\* quantity and price are the computed ones
ExactlyAttached(k) ==
    /\ ~IsNone(Matched(k))
    /\ Matched(k)[1].quantity = Computed(k).quantity
    /\ Matched(k)[1].item_price = Computed(k).price

RECURSIVE SumValues(_)
SumValues(k) ==
    IF k = 0 THEN 0
    ELSE SumValues(k - 1) + Computed(k).quantity * Computed(k).price

ActionTypes(result) ==
    [k \in 1..Len(result.actions) |-> result.actions[k].action_type]

-----------------------------------------------------------------------------
(* C1: for every (calculation mode, quantity mode) pair, a company whose     *)
(* product is already attached with the computed quantity and price is       *)
(* recorded as skipped_exists, in the first invocation and in the second,    *)
(* and the second invocation issues no mutating remote call.                 *)

C1_SkippedExistsBothTimes ==
    LoopDone =>
        /\ \A k \in 1..Len(actions) :
              ExactlyAttached(k) => actions[k].action_type = "skipped_exists"
        /\ (run = 2 /\ \A k \in 1..Len(actions) : ExactlyAttached(k)) =>
              \A k \in 1..Len(actions) : MutatingCalls(k) = {}

-----------------------------------------------------------------------------
(* C2: in a real run whose remote calls all succeed, a valid company whose   *)
(* product is found or created and has no entry in the fetched attachment    *)
(* list is recorded as attached_new with the computed quantity and price,    *)
(* and quantity * price is added to the total value.                         *)

NewlyAttached(k) == Valid(k) /\ ~IsNone(actions[k].product_id) /\ IsNone(Matched(k))

C2_AttachedNewRecorded ==
    (LoopDone /\ ~dry_run /\ faults = 0) =>
        /\ \A k \in 1..Len(actions) :
              NewlyAttached(k) =>
                  /\ actions[k].action_type = "attached_new"
                  /\ actions[k].new_quantity = Some(Computed(k).quantity)
                  /\ actions[k].new_price = Some(Computed(k).price)
        /\ (\A k \in 1..Len(actions) : NewlyAttached(k)) =>
              total_value = SumValues(Len(actions))

-----------------------------------------------------------------------------
(* C3: under a duplicate policy other than force_new the deal never holds    *)
(* two attachments for one product, whatever the companies' names, already   *)
(* when every remote call succeeds.                                          *)

C3_OneAttachmentPerProduct ==
    (config.duplicate_attachment_action # "force_new" /\ faults = 0) =>
        \A p \in 1..Len(catalog) : Cardinality(AttachmentsOf(p)) <= 1

-----------------------------------------------------------------------------
(* C4: with duplicate policy update and change policy update_both, after a   *)
(* real run whose remote calls all succeed every valid company whose product *)
(* was found or created has exactly one attachment for it, with the computed *)
(* quantity and price; a further such run issues no mutating remote call.    *)

UpdateBoth ==
    /\ config.duplicate_attachment_action = "update"
    /\ config.w2_change_action = "update_both"

C4_OneCorrectAttachment ==
    (LoopDone /\ ~dry_run /\ faults = 0 /\ UpdateBoth) =>
        /\ \A k \in 1..Len(actions) :
              (Valid(k) /\ ~IsNone(actions[k].product_id)) =>
                  \E n \in 1..Len(dealProducts) :
                      /\ AttachmentsOf(actions[k].product_id[1]) = {n}
                      /\ dealProducts[n].quantity = Computed(k).quantity
                      /\ dealProducts[n].item_price = Computed(k).price
        /\ (run = 2 /\ ~history[1].dry_run /\ history[1].faults = 0) =>
              \A k \in 1..Len(actions) : MutatingCalls(k) = {}

-----------------------------------------------------------------------------
(* C5: when a real run created an attachment for a company, the next run     *)
(* with the same input finds an exact match for that company and issues no   *)
(* attachment create or update call for it.                                  *)

\* action k of the earlier run's result reports an attachment it created
CreatedBefore(k) ==
    /\ Len(history[1].results) = 1
    /\ k <= Len(history[1].results[1].actions)
    /\ LET a == history[1].results[1].actions[k] IN
          /\ a.action_type # "error"
          /\ ~IsNone(a.attachment_id)
          /\ IsNone(a.old_quantity)

C5_RerunFindsExactMatch ==
    (LoopDone /\ run = 2 /\ ~history[1].dry_run /\ history[1].faults = 0 /\ faults = 0) =>
        \A k \in 1..Len(actions) :
            CreatedBefore(k) => (ExactlyAttached(k) /\ AttachmentWrites(k) = {})

-----------------------------------------------------------------------------
(* C6: the status of a submission that reached the loop over companies is    *)
(* success when an attachment was created or updated for some company,       *)
(* failed_error when some company ended in error and none was created or     *)
(* updated, skipped when none was created, updated or in error and some      *)
(* company was skipped, and failed_error otherwise.                          *)

\* the calls of the log belong to the submission whose result is the last
JustReturned ==
    /\ pc = "loop"
    /\ results # << >>
    /\ Last(results).submission_id = i - 1
    /\ IsNone(Last(results).error_message)

Written(k) ==
    /\ Last(results).actions[k].action_type # "error"
    /\ AttachmentWrites(k) # {}

C6_FinalStatus ==
    (JustReturned /\ ~dry_run) =>
        LET acts == Last(results).actions
            written == \E k \in 1..Len(acts) : Written(k)
            errors == \E k \in 1..Len(acts) : acts[k].action_type = "error"
            skipped == \E k \in 1..Len(acts) :
                           acts[k].action_type # "error" /\ ~Written(k)
        IN Last(results).status =
               IF written THEN "success"
               ELSE IF errors THEN "failed_error"
               ELSE IF skipped THEN "skipped"
               ELSE "failed_error"

-----------------------------------------------------------------------------
(* C7: a dry run issues no mutating remote call: the only calls it issues    *)
(* are the deal lookup, the attachment-list fetch and catalog searches, and  *)
(* no step of it changes the catalog or the deal's attachments.              *)

ReadOps == {"get_deal", "get_deal_products", "search_product"}

DryRunOnlyReads ==
    dry_run => \A n \in 1..Len(calls) : calls[n].op \in ReadOps

DryRunLeavesRemote ==
    dry_run => (catalog' = catalog /\ dealProducts' = dealProducts)

C7_DryRunNeverMutates ==
    [](DryRunOnlyReads) /\ [][DryRunLeavesRemote]_vars

\* a dry run went through a product it would have created and an attachment
\* it would have created
C7_Witness ==
    /\ dry_run
    /\ LoopDone
    /\ \E k \in 1..Len(actions) :
          /\ actions[k].product_id = Some(DummyProductId)
          /\ ~IsNone(actions[k].new_quantity)
          /\ actions[k].action_type = "created_catalog"
    /\ \E k \in 1..Len(actions) :
          /\ ~IsNone(actions[k].old_quantity)
          /\ actions[k].old_quantity # actions[k].new_quantity

-----------------------------------------------------------------------------
(* C8: with every remote call succeeding, a dry run and a real run of the    *)
(* same input against the same remote state report the same statuses, the    *)
(* same companies-processed counts and the same sequence of action kinds.    *)

Reported(h) ==
    [n \in 1..Len(h.results) |->
        [status |-> h.results[n].status,
         companies_processed |-> h.results[n].companies_processed,
         action_types |-> ActionTypes(h.results[n])]]

C8_DryRunReportsAsRealRun ==
    (/\ Len(history) = 2
     /\ history[1].dry_run /\ history[1].faults = 0
     /\ ~history[2].dry_run /\ history[2].faults = 0) =>
        Reported(history[1]) = Reported(history[2])

-----------------------------------------------------------------------------
(* C9: a validation failure or a remote-call failure while processing one    *)
(* company becomes an error action of that company and never stops the loop: *)
(* no exception leaves the loop over companies, the actions are those of the *)
(* companies resolved for the submission, one each and in order, and         *)
(* companies_processed is their number.                                      *)

Failed(call) ==
    \/ call.result \notin {"ok", "nosuccess"}
    \/ call.result = "nosuccess" /\ call.op \in MutatingOps

OneActionPerCompany(acts, cs) ==
    /\ Len(acts) = Len(cs)
    /\ \A k \in 1..Len(cs) :
          /\ acts[k].company_name = cs[k].company_legal_name
          /\ acts[k].w2_count = cs[k].w2_employee_count

C9_CompanyFailureIsAnErrorAction ==
    /\ exception # "APIError"
    /\ (pc = "raised" => actions = << >>)
    /\ pc = "company" =>
          /\ OneActionPerCompany(actions, SubSeq(companies, 1, Len(actions)))
          /\ \A k \in 1..Len(actions) :
                ~Valid(k) => actions[k].action_type = "error"
          /\ \A n \in 1..Len(calls) :
                (calls[n].company \in 1..Len(actions) /\ Failed(calls[n])) =>
                    actions[calls[n].company].action_type = "error"
    /\ \A n \in 1..Len(results) :
          IsNone(results[n].error_message) =>
              /\ OneActionPerCompany(
                     results[n].actions,
                     get_companies_to_process(config, submissions[results[n].submission_id]))
              /\ results[n].companies_processed = Len(results[n].actions)

\* the catalog search for the first company raised, which became that
\* company's error action, and the loop went on to attach the second company
C9_Witness ==
    /\ LoopDone
    /\ Len(actions) = 2
    /\ \E n \in 1..Len(calls) :
          /\ calls[n].company = 1
          /\ calls[n].op = "search_product"
          /\ calls[n].result \in {"APIError", "RateLimitError"}
    /\ actions[1].action_type = "error"
    /\ actions[2].action_type # "error"
    /\ \E n \in 1..Len(calls) :
          calls[n].company = 2 /\ calls[n].op = "attach_product"

-----------------------------------------------------------------------------
(* C10: every submission handed to the main loop yields an outcome: when the *)
(* invocation has ended, the results hold one outcome per submission, also   *)
(* when a deal does not exist, under both settings of skip_orphaned_deals,   *)
(* and already when every remote call gets the answer the remote side has.   *)

C10_OutcomePerSubmission ==
    (pc = "exited" /\ faults = 0) => Len(results) = Len(submissions)

-----------------------------------------------------------------------------
(* Vocabulary of the gateway properties *)

\* the HTTP error statuses other than 429, as raise_for_status meets them
HttpErrors == {"http404", "http500"}

\* the call in flight has ended
RequestDone == pc = "gateway" /\ request.status \in {"returned", "raised"}

\* the attempts of the call in flight
Attempts == Len(request.results)

-----------------------------------------------------------------------------
(* C11: a response with an HTTP error status other than 429 makes            *)
(* _make_request raise at once: the call that met it on its first attempt    *)
(* has raised after exactly this one attempt, without a backoff sleep, the   *)
(* counter advanced by one.                                                  *)

C11_HttpErrorRaisesAtOnce ==
    (pc = "gateway" /\ request.n = 1 /\ Attempts >= 1
        /\ request.results[1] \in HttpErrors) =>
        /\ request.status = "raised"
        /\ Attempts = 1
        /\ request.sleeps = 0
        /\ api_call_count = 1

-----------------------------------------------------------------------------
(* C12: a lookup that receives HTTP 404 is turned into "not found" by its    *)
(* caller instead of an exception: the deal lookup of a submission whose     *)
(* deal does not exist, answered with 404 under skip_orphaned_deals, gives   *)
(* the submission the status orphaned.                                       *)

\* The log keeps how the gateway ended a call.  For a deal that does not
\* exist the remote side answers success=false or 404; of the two only the
\* 404 ends in APIError, so with no fault met so far the lookup that ended
\* in APIError is the one that received 404.
DealLookupMet404 ==
    /\ pc = "loop"
    /\ Len(results) > 0
    /\ submissions[Last(results).submission_id].deal_id = Some(MissingDeal)
    /\ faults = 0
    /\ Len(calls) = 1
    /\ calls[1].op = "get_deal"
    /\ calls[1].result = "APIError"

C12_NotFoundOn404 ==
    (DealLookupMet404 /\ config.skip_orphaned_deals) =>
        Last(results).status = "orphaned"

-----------------------------------------------------------------------------
(* C13: every remote call ends after at most max_retries = 3 attempts,       *)
(* whatever its attempts meet: the loop never starts a fourth attempt, the   *)
(* call has ended once the third is made, with RateLimitError when the third *)
(* met 429 and with APIError when it met a timeout or a transport failure.   *)

C13_AtMostThreeAttempts ==
    pc = "gateway" =>
        /\ Attempts <= max_retries
        /\ request.attempt < max_retries
        /\ Attempts = max_retries =>
              /\ request.status # "trying"
              /\ Last(request.results) = "r429" =>
                    request.status = "raised" /\ request.raised = "RateLimitError"
              /\ Last(request.results) \in Timeouts \cup RequestExceptions =>
                    request.status = "raised" /\ request.raised = "APIError"

\* a call whose attempts met 429, a timeout and 429 again has raised
\* RateLimitError
C13_Witness ==
    /\ RequestDone
    /\ request.results = <<"r429", "timeout", "r429">>
    /\ request.raised = "RateLimitError"

-----------------------------------------------------------------------------
(* C14: a call whose first k attempts (k = 1 or 2) met 429 and whose attempt *)
(* k+1 met a success has returned that response without raising, and has     *)
(* slept once between each two consecutive attempts, k times in all.         *)

C14_SuccessAfterRateLimit ==
    \A k \in 1..(max_retries - 1) :
        ( /\ pc = "gateway"
          /\ Attempts = k + 1
          /\ \A a \in 1..k : request.results[a] = "r429"
          /\ request.results[k + 1] = "ok" ) =>
            /\ request.status = "returned"
            /\ request.raised = "none"
            /\ request.sleeps = k

\* a call has returned the success of its third attempt after two 429s
C14_Witness ==
    /\ RequestDone
    /\ request.results = <<"r429", "r429", "ok">>
    /\ request.status = "returned"
    /\ request.sleeps = 2

-----------------------------------------------------------------------------
(* The two renderings of _make_request agree: a call that has ended attempt  *)
(* by attempt ended as make_request ends the script of what its attempts met *)

GatewayAgrees ==
    RequestDone =>
        LET out == make_request([a \in 1..max_retries |->
                                    IF a > Attempts THEN "ok"
                                    ELSE IF request.results[a] \in Timeouts THEN "timeout"
                                    ELSE request.results[a]])
        IN /\ out.raised = request.raised
           /\ out.success = (request.status = "returned" /\ Last(request.results) = "ok")
           /\ out.attempts = Attempts
           /\ out.slept = request.slept

-----------------------------------------------------------------------------
(* C15: the call counter of the client never decreases, every HTTP attempt   *)
(* advances it by exactly one, whether the attempt met a success, a 429, a   *)
(* timeout or an error, and after any sequence of calls it equals the        *)
(* number of attempts issued.                                                *)

C15_CounterCountsAttempts ==
    /\ [](pc = "gateway" => api_call_count = request.issued)
    /\ [][ /\ api_call_count' >= api_call_count
           /\ (pc = "gateway" /\ request'.issued = request.issued + 1) =>
                  api_call_count' = api_call_count + 1
           /\ (pc = "gateway" /\ request'.issued = request.issued) =>
                  api_call_count' = api_call_count ]_vars

\* the second call made on the client has ended, the first having taken
\* three attempts and the second two, one of them a timeout: the counter is 5
C15_Witness ==
    /\ RequestDone
    /\ request.n = 2
    /\ request.results = <<"timeout", "ok">>
    /\ request.issued = 5
    /\ api_call_count = 5

-----------------------------------------------------------------------------
(* Vocabulary of the duplicate handling properties *)

\* the fetched list holds an attachment for company k's product whose
\* quantity or price is not the computed one
QuantityDiffers(k) ==
    ~IsNone(Matched(k)) /\ Matched(k)[1].quantity # Computed(k).quantity

PriceDiffers(k) ==
    ~IsNone(Matched(k)) /\ Matched(k)[1].item_price # Computed(k).price

\* the update calls issued for company k
UpdateCalls(k) ==
    { n \in AttachmentWrites(k) : calls[n].op = "update_attachment" }

-----------------------------------------------------------------------------
(* C16: under the duplicate policy "error", a company whose product the      *)
(* fetched attachment list holds with a quantity or a price that differs     *)
(* from the computed one is recorded with an error action, no call that      *)
(* creates or updates an attachment is issued for it, and the attachment on  *)
(* the deal stays as it was fetched.                                         *)

C16_ErrorPolicyLeavesAttachment ==
    (pc = "company" /\ config.duplicate_attachment_action = "error") =>
        \A k \in 1..Len(actions) :
            (QuantityDiffers(k) \/ PriceDiffers(k)) =>
                /\ actions[k].action_type = "error"
                /\ AttachmentWrites(k) = {}
                /\ Matched(k)[1].id \in 1..Len(dealProducts)
                /\ dealProducts[Matched(k)[1].id] = Matched(k)[1]

\* a real run under the policy "error" has recorded the error action of a
\* company whose product is attached with another quantity
C16_Witness ==
    /\ LoopDone
    /\ ~dry_run
    /\ config.duplicate_attachment_action = "error"
    /\ \E k \in 1..Len(actions) :
          /\ QuantityDiffers(k)
          /\ actions[k].action_type = "error"
          /\ actions[k].product_id = Some(Matched(k)[1].product_id)

-----------------------------------------------------------------------------
(* C17: under the duplicate policy "update" and the change policy            *)
(* "update_both", a real run that finds the product of a company attached    *)
(* with another quantity and another price issues exactly one update call    *)
(* for that company, on the matched attachment, carrying both the computed   *)
(* quantity and the computed price, and no other attachment call.            *)

-----------------------------------------------------------------------------
(* C18: under the duplicate policy "update" and the change policy            *)
(* "update_quantity", a real run that finds the product of a company         *)
(* attached with another quantity issues exactly one update call for that    *)
(* company, carrying the computed quantity and no price field, and the       *)
(* action recorded for the update that went through reports the price of     *)
(* the matched attachment as both old_price and new_price.                   *)

UpdateQuantityOnly ==
    /\ config.duplicate_attachment_action = "update"
    /\ config.w2_change_action = "update_quantity"

C18_QuantityOnlyUpdate ==
    (pc = "company" /\ ~dry_run /\ UpdateQuantityOnly) =>
        \A k \in 1..Len(actions) :
            QuantityDiffers(k) =>
                /\ \E n \in 1..Len(calls) :
                      /\ UpdateCalls(k) = {n}
                      /\ AttachmentWrites(k) = {n}
                      /\ calls[n].attachment_id = Some(Matched(k)[1].id)
                      /\ calls[n].quantity = Some(Computed(k).quantity)
                      /\ IsNone(calls[n].item_price)
                /\ actions[k].action_type # "error" =>
                      /\ actions[k].old_price = Some(Matched(k)[1].item_price)
                      /\ actions[k].new_price = Some(Matched(k)[1].item_price)
                      /\ actions[k].old_quantity = Some(Matched(k)[1].quantity)
                      /\ actions[k].new_quantity = Some(Computed(k).quantity)

\* the quantity of an attachment went from 2 to 3 at the unchanged price 2.0
C18_Witness ==
    /\ LoopDone
    /\ ~dry_run
    /\ UpdateQuantityOnly
    /\ \E k \in 1..Len(actions) :
          /\ QuantityDiffers(k)
          /\ ~PriceDiffers(k)
          /\ actions[k].action_type # "error"
          /\ actions[k].old_quantity = Some(2)
          /\ actions[k].new_quantity = Some(3)
          /\ actions[k].old_price = Some(2 * PriceScale)
          /\ actions[k].new_price = Some(2 * PriceScale)
          /\ dealProducts[Matched(k)[1].id].quantity = 3
          /\ dealProducts[Matched(k)[1].id].item_price = 2 * PriceScale

-----------------------------------------------------------------------------
(* C19: when an update call is issued for a company and goes through, the    *)
(* action recorded for the company has the kind updated_quantity when the    *)
(* call carried a quantity, alone or with a price, and updated_price when    *)
(* it carried a price only.                                                  *)

C19_UpdateKindRecorded ==
    pc = "company" =>
        \A k \in 1..Len(actions) :
            \A n \in UpdateCalls(k) :
                calls[n].result = "ok" =>
                    actions[k].action_type =
                        IF ~IsNone(calls[n].quantity) THEN "updated_quantity"
                        ELSE "updated_price"

-----------------------------------------------------------------------------
(* C20: with skip_missing_w2 enabled, a company that has no W2 count is      *)
(* recorded with an error action, and no remote call that creates a product  *)
(* or creates or updates an attachment is issued for it.                     *)

MissingW2(k) == IsNone(companies[k].w2_employee_count)

C20_MissingW2IsAnError ==
    (pc = "company" /\ config.skip_missing_w2) =>
        \A k \in 1..Len(actions) :
            MissingW2(k) =>
                /\ actions[k].action_type = "error"
                /\ MutatingCalls(k) = {}

\* a real run has recorded the error action of a company without W2 count
\* and has issued a mutating call for the other company of the submission
C20_Witness ==
    /\ LoopDone
    /\ ~dry_run
    /\ config.skip_missing_w2
    /\ \E k, o \in 1..Len(actions) :
          /\ MissingW2(k)
          /\ actions[k].action_type = "error"
          /\ IsNone(actions[k].product_id)
          /\ ~MissingW2(o)
          /\ MutatingCalls(o) # {}

-----------------------------------------------------------------------------
(* C21: in every outcome total_value_added is the sum of new_quantity *      *)
(* new_price over the recorded actions of kind attached_new,                 *)
(* updated_quantity or updated_price, and over no other action; the          *)
(* outcomes of status no_deal_id, no_companies and orphaned have the total   *)
(* 0.  (No recorded action has one of the three kinds, see C2 and C19: the   *)
(* sum is over no action in every outcome the tool produces.)                *)

ContributingKinds == {"attached_new", "updated_quantity", "updated_price"}

RECURSIVE ContributedValue(_, _)
ContributedValue(acts, k) ==
    IF k = 0 THEN 0
    ELSE ContributedValue(acts, k - 1)
         + (IF /\ acts[k].action_type \in ContributingKinds
               /\ ~IsNone(acts[k].new_quantity)
               /\ ~IsNone(acts[k].new_price)
            THEN acts[k].new_quantity[1] * acts[k].new_price[1]
            ELSE 0)

-----------------------------------------------------------------------------
(* C22: the early exits of link_submission make no remote call.  A           *)
(* submission without deal id gets the status no_deal_id, a submission with  *)
(* a deal id whose company list for the configured process mode is empty     *)
(* gets the status no_companies; in both cases the outcome has no action,    *)
(* companies_processed 0 and total value 0, the call counter is unchanged,   *)
(* no call is logged and the remote side is as before.  (The fetch of        *)
(* main.py hands over no submission with an empty company list; the step is  *)
(* checked for every submission link_submission accepts.)                    *)

\* the company list of the submission is empty under the process mode
NoCompanies(submission) ==
    /\ config.process_companies \in {"primary_only", "both"} =>
          IsNone(submission.primary_company)
    /\ config.process_companies \in {"additional_only", "both"} =>
          submission.additional_companies = << >>

EarlyExit ==
    /\ pc = "loop"
    /\ i <= Len(submissions)
    /\ IsNone(submissions[i].deal_id) \/ NoCompanies(submissions[i])

C22_EarlyExitsMakeNoCall ==
    [][ EarlyExit =>
          /\ Len(results') = Len(results) + 1
          /\ SubSeq(results', 1, Len(results)) = results
          /\ LET result == results'[Len(results')] IN
                /\ result = LinkResult(i, submissions[i].deal_id,
                                       IF IsNone(submissions[i].deal_id) THEN "no_deal_id"
                                       ELSE "no_companies",
                                       0, << >>, 0, result.error_message)
                /\ ~IsNone(result.error_message)
          /\ api_call_count' = api_call_count
          /\ calls' = << >>
          /\ catalog' = catalog
          /\ dealProducts' = dealProducts
          /\ pc' = "loop" ]_vars

\* a run has produced a no_deal_id outcome and a no_companies outcome, and
\* its call counter is still 0
C22_Witness ==
    /\ pc = "loop"
    /\ Len(results) = 2
    /\ results[1].status = "no_deal_id"
    /\ results[2].status = "no_companies"
    /\ api_call_count = 0

-----------------------------------------------------------------------------
(* An invocation that the user interrupts.  No signal handler is installed:  *)
(* KeyboardInterrupt is raised in the main thread wherever it is, between    *)
(* two submissions or inside link_submission.  It is no Exception, so the    *)
(* handler of _process_company lets it pass, and the first handler it meets  *)
(* is the one of main().                                                     *)

InterruptedExitCode == 130

Interrupt ==
    /\ pc \in {"loop", "verify", "fetch", "company"}
    /\ exception' = "KeyboardInterrupt"
    /\ pc' = "interrupted"
    /\ UNCHANGED <<probe, request, config, submissions, catalog, dealProducts, run,
                   dry_run, api_call_count, i, results, companies,
                   current_attachments, actions, total_value, calls, faults, history>>

\* main(): except KeyboardInterrupt
InterruptedExit ==
    /\ pc = "interrupted"
    /\ history' = Append(history, Finished(InterruptedExitCode))
    /\ pc' = "exited"
    /\ UNCHANGED <<probe, request, config, submissions, catalog, dealProducts, run,
                   dry_run, api_call_count, i, results, companies,
                   current_attachments, actions, total_value, calls, faults,
                   exception>>

NextInterrupt == Next \/ Interrupt \/ InterruptedExit

SpecInterrupt == Init /\ [][NextInterrupt]_vars

-----------------------------------------------------------------------------
(* C23: an interrupt takes effect between submissions only: when the run is  *)
(* stopped by KeyboardInterrupt no submission is in progress, that is, every *)
(* submission whose processing has started has had all its companies         *)
(* processed and its outcome appended to the results.                        *)

\* link_submission has been entered for submission i and has not returned
SubmissionInProgress == companies # << >>

C23_InterruptBetweenSubmissions ==
    (exception = "KeyboardInterrupt" /\ faults = 0) =>
        /\ ~SubmissionInProgress
        /\ Len(results) = i - 1

-----------------------------------------------------------------------------
(* C24: the run is reported as failed, with exit code 1, only if the outcome *)
(* of at least one submission has the status failed_error; a run that meets  *)
(* a deal that does not exist is reported as succeeded, already when every   *)
(* remote call gets the answer the remote side has.                          *)

C24_FailedOnlyWithFailedOutcome ==
    (pc = "exited" /\ faults = 0 /\ Last(history).exit_code = 1) =>
        \E n \in 1..Len(results) : results[n].status = "failed_error"

-----------------------------------------------------------------------------
(* C25: a mutating remote operation is carried out at most once per logical  *)
(* call: when the POST of a call has ended, with a response or with an       *)
(* exception, the remote side has carried it out once at most, also when an  *)
(* attempt timed out after the remote side had carried it out.               *)

C25_AppliedAtMostOnce ==
    (RequestDone /\ request.method = "POST") => request.applied <= 1

-----------------------------------------------------------------------------
(* C26: _validate_company fails in exactly these cases and passes in every   *)
(* other: the W2 count is missing and skip_missing_w2 is set; it is 0 and    *)
(* skip_zero_w2 is set; it is below min_w2_count; it is above max_w2_count   *)
(* and max_w2_count is positive.  This for every W2 count, absent, negative, *)
(* zero or positive, and every minimum and maximum.                          *)

C26_ValidationVerdict ==
    probe.op = "validate_company" =>
        LET w2 == probe.company.w2_employee_count
            cfg == probe.cfg
        IN ~IsNone(probe.verdict) <=>
              \/ IsNone(w2) /\ cfg.skip_missing_w2
              \/ ~IsNone(w2) /\ w2[1] = 0 /\ cfg.skip_zero_w2
              \/ ~IsNone(w2) /\ w2[1] < cfg.min_w2_count
              \/ ~IsNone(w2) /\ cfg.max_w2_count > 0 /\ w2[1] > cfg.max_w2_count

-----------------------------------------------------------------------------
(* C27: _format_product_name removes the surrounding whitespace of the name  *)
(* and exactly one trailing period, a name ending in several periods keeping *)
(* all but the last, and then applies the format: company_name and           *)
(* custom_format give the normalised name, company_name_with_prefix gives    *)
(* the configured prefix followed by it.                                     *)

\* the name without one trailing period
WithoutOnePeriod(s) ==
    IF s # << >> /\ s[Len(s)] = "." THEN SubSeq(s, 1, Len(s) - 1) ELSE s

C27_OneTrailingPeriodRemoved ==
    probe.op = "format_product_name" =>
        LET normalised == WithoutOnePeriod(Strip(probe.company.company_legal_name)) IN
        probe.product_name =
            IF probe.cfg.product_name_format = "company_name_with_prefix"
            THEN probe.cfg.product_name_prefix \o normalised
            ELSE normalised

-----------------------------------------------------------------------------
(* C28: the catalog resolver is idempotent by name.  Called twice in         *)
(* sequence with the same product name in a real run with auto-create, every *)
(* remote call getting the answer the remote side has, it creates one        *)
(* catalog entry at most, and the second call returns a product as found,    *)
(* the one the first call returned; this for names of every length.          *)

\* the catalog entries the calls so far created
ProductsCreated ==
    { n \in 1..Len(calls) : calls[n].op = "create_product" /\ calls[n].result = "ok" }

C28_ResolverIdempotent ==
    ( /\ pc = "catalog"
      /\ ~dry_run
      /\ config.auto_create_products
      /\ faults = 0
      /\ Len(probe.returned) >= 2 ) =>
        /\ Cardinality(ProductsCreated) <= 1
        /\ probe.returned[2].catalog_action = Some("found_catalog")
        /\ probe.returned[2].product = probe.returned[1].product

-----------------------------------------------------------------------------
(* C29: for a company that passes validation, the first remote call is one   *)
(* exact-name catalog search for its product name, and there is no other     *)
(* search.  When the search returns a product, no create is issued and the   *)
(* product is returned as found.  When it returns none and auto-create is    *)
(* enabled, a real run issues exactly one create, right after the search,    *)
(* with the name cut to NameLimit characters, and the product it answers is  *)
(* returned as created.  When it returns none and auto-create is disabled,   *)
(* no create and no other call is issued and the recorded action is error.   *)
(* (What is returned shows in the recorded action, whose kind is the catalog *)
(* action unless the reconciliation that follows ended in an error.)         *)

\* the calls the step issues, in order
NewCalls == SubSeq(calls', Len(calls) + 1, Len(calls'))

NewCallsOf(op) == { n \in 1..Len(NewCalls) : NewCalls[n].op = op }

C29_SearchThenCreate ==
    [][ ( /\ pc = "company"
          /\ Len(actions') = Len(actions) + 1
          /\ Valid(Len(actions) + 1) ) =>
        LET k == Len(actions) + 1
            product_name == format_product_name(config, companies[k].company_legal_name)
            existing == FirstExact(catalog, Strip(product_name), 1)
            action == actions'[k]
            search_failed == NewCalls[1].result \notin {"ok", "nosuccess"}
            search_found == NewCalls[1].result = "ok" /\ ~IsNone(existing)
            search_none == ~search_failed /\ ~search_found
        IN /\ Len(NewCalls) >= 1
           /\ NewCallsOf("search_product") = {1}
           /\ NewCalls[1].name = Some(Strip(product_name))
           /\ search_failed =>
                 /\ Len(NewCalls) = 1
                 /\ action.action_type = "error"
           /\ search_found =>
                 /\ NewCallsOf("create_product") = {}
                 /\ catalog' = catalog
                 /\ action.action_type \in {"found_catalog", "error"}
                 /\ action.action_type = "found_catalog" =>
                        action.product_id = Some(existing[1].id)
           /\ (search_none /\ config.auto_create_products /\ ~dry_run) =>
                 /\ NewCallsOf("create_product") = {2}
                 /\ NewCalls[2].name = Some(Truncate(product_name))
                 /\ NewCalls[2].result = "ok" =>
                        /\ catalog' = Append(catalog, Truncate(product_name))
                        /\ action.action_type \in {"created_catalog", "error"}
                        /\ action.action_type = "created_catalog" =>
                               action.product_id = Some(Len(catalog'))
                 /\ NewCalls[2].result # "ok" =>
                        /\ Len(NewCalls) = 2
                        /\ catalog' = catalog
                        /\ action.action_type = "error"
           /\ (search_none /\ ~config.auto_create_products) =>
                 /\ Len(NewCalls) = 1
                 /\ catalog' = catalog
                 /\ action.action_type = "error"
                 /\ action.error_message = Some("Failed to find or create product")
      ]_vars

\* a real run has searched for the products of two companies: it found the
\* one and issued no create, it did not find the other and created it
C29_Witness ==
    /\ LoopDone
    /\ ~dry_run
    /\ config.auto_create_products
    /\ \E k, o \in 1..Len(actions) :
          /\ actions[k].action_type = "found_catalog"
          /\ { calls[n].op : n \in { m \in 1..Len(calls) : calls[m].company = k } }
                = {"search_product", "attach_product"}
          /\ actions[o].action_type = "created_catalog"
          /\ actions[o].product_id = Some(Len(catalog))
          /\ Cardinality({ n \in 1..Len(calls) :
                             /\ calls[n].company = o
                             /\ calls[n].op = "create_product" }) = 1

-----------------------------------------------------------------------------
(* C30: what _calculate_quantity_and_price returns is fixed by the W2 count, *)
(* the two modes and the configured constants.  With the effective W2 the    *)
(* W2 count, or 1 when there is none, the quantity is the effective W2, 1 or *)
(* the custom quantity for the quantity mode w2_count, always_one or custom, *)
(* whatever the calculation mode; the price is the effective W2, the price   *)
(* per employee or the fixed price for the calculation mode w2_count,        *)
(* w2_count_times_price or fixed_price.                                      *)

EffectiveW2 ==
    IF IsNone(probe.company.w2_employee_count) THEN 1
    ELSE probe.company.w2_employee_count[1]

-----------------------------------------------------------------------------
(* Vocabulary of the reconciler properties *)

\* _handle_duplicate_attachment has returned
Reconciler == pc = "duplicate" /\ probe.returned # << >>

\* the attachment match detection found, as it was fetched
Existing == current_attachments[1]

\* what the reconciler returned
Result == probe.returned[1]

QuantityEqual == Existing.quantity = probe.quantity

\* the existing price is less than 0.01 from the computed one
PriceWithinTolerance == Abs(Existing.item_price - probe.price) < Tolerance

AttachmentCallsIssued ==
    { n \in 1..Len(calls) : calls[n].op \in {"attach_product", "update_attachment"} }

UpdatesIssued == { n \in 1..Len(calls) : calls[n].op = "update_attachment" }

AttachesIssued == { n \in 1..Len(calls) : calls[n].op = "attach_product" }

-----------------------------------------------------------------------------
(* C31: when the matched attachment has the computed quantity and a price    *)
(* less than 0.01 from the computed price, the reconciler issues no remote   *)
(* call, leaves the attachments of the deal as they are and returns          *)
(* skipped_exists, under every duplicate policy and every change policy.     *)

C31_ExactMatchIsSkipped ==
    (Reconciler /\ QuantityEqual /\ PriceWithinTolerance) =>
        /\ calls = << >>
        /\ dealProducts = current_attachments
        /\ Result.action_type = "skipped_exists"
        /\ Result.attachment_id = Some(Existing.id)

\* a real run under the policy force_new has returned skipped_exists for an
\* attachment with the computed values, and has attached nothing
C31_Witness ==
    /\ Reconciler
    /\ ~dry_run
    /\ config.duplicate_attachment_action = "force_new"
    /\ QuantityEqual
    /\ Existing.item_price = probe.price
    /\ Result.action_type = "skipped_exists"
    /\ Len(dealProducts) = 1

-----------------------------------------------------------------------------
(* C32: when the matched attachment differs from the computed values and the *)
(* duplicate policy is force_new, the reconciler of a real run issues        *)
(* exactly one attachment-create call, for the same product with the         *)
(* computed quantity and price, and no update; when the remote side answers  *)
(* the create, the deal holds the attachments it held, unchanged, and one    *)
(* more for that product.                                                    *)

Differs == ~(QuantityEqual /\ PriceWithinTolerance)

AttachmentsFor(product_id, attachments) ==
    { n \in 1..Len(attachments) : attachments[n].product_id = product_id }

C32_ForceNewAddsOneAttachment ==
    ( /\ Reconciler
      /\ ~dry_run
      /\ Differs
      /\ config.duplicate_attachment_action = "force_new" ) =>
        /\ Len(calls) = 1
        /\ calls[1].op = "attach_product"
        /\ calls[1].product_id = Some(MatchedProduct.id)
        /\ calls[1].quantity = Some(probe.quantity)
        /\ calls[1].item_price = Some(probe.price)
        /\ calls[1].result = "ok" =>
              /\ Len(dealProducts) = Len(current_attachments) + 1
              /\ SubSeq(dealProducts, 1, Len(current_attachments)) = current_attachments
              /\ Cardinality(AttachmentsFor(MatchedProduct.id, dealProducts))
                    = Cardinality(AttachmentsFor(MatchedProduct.id, current_attachments)) + 1
              /\ Result.action_type = "attached_new"
        /\ calls[1].result # "ok" =>
              /\ dealProducts = current_attachments
              /\ Result.action_type = "error"

\* a real run under force_new has added a second attachment of the product,
\* with the computed quantity, next to the one whose quantity differs
C32_Witness ==
    /\ Reconciler
    /\ ~dry_run
    /\ config.duplicate_attachment_action = "force_new"
    /\ ~QuantityEqual
    /\ Len(dealProducts) = 2
    /\ dealProducts[1] = Existing
    /\ dealProducts[2].product_id = Existing.product_id
    /\ dealProducts[2].quantity = probe.quantity
    /\ dealProducts[2].item_price = probe.price

-----------------------------------------------------------------------------
(* C33: when the matched attachment differs from the computed values and the *)
(* duplicate policy is skip, or the duplicate policy is update and the       *)
(* change policy is skip, the reconciler issues no remote call, the          *)
(* attachments of the deal are unchanged, and its result, of kind            *)
(* skipped_exists, reports the existing values as old_quantity and old_price *)
(* and the computed values as new_quantity and new_price.                    *)

SkipConfigured ==
    \/ config.duplicate_attachment_action = "skip"
    \/ /\ config.duplicate_attachment_action = "update"
       /\ config.w2_change_action = "skip"

C33_SkipReportsDesiredAndActual ==
    (Reconciler /\ Differs /\ SkipConfigured) =>
        /\ calls = << >>
        /\ api_call_count = 0
        /\ dealProducts = current_attachments
        /\ Result.action_type = "skipped_exists"
        /\ Result.old_quantity = Some(Existing.quantity)
        /\ Result.old_price = Some(Existing.item_price)
        /\ Result.new_quantity = Some(probe.quantity)
        /\ Result.new_price = Some(probe.price)

\* a real run under duplicate policy update and change policy skip has left
\* an attachment whose quantity and price both differ, and reports both pairs
C33_Witness ==
    /\ Reconciler
    /\ ~dry_run
    /\ config.duplicate_attachment_action = "update"
    /\ config.w2_change_action = "skip"
    /\ ~QuantityEqual
    /\ Abs(Existing.item_price - probe.price) > Tolerance
    /\ calls = << >>
    /\ Result.old_quantity # Result.new_quantity
    /\ Result.old_price # Result.new_price

-----------------------------------------------------------------------------
(* C34: under the duplicate policy update, when the change policy selects    *)
(* the quantity alone and the quantities are equal, or the price alone and   *)
(* the prices are equal, the reconciler returns skipped_exists and issues no *)
(* remote call; and an update call it issues, one at most, carries only      *)
(* fields that the change policy selects and whose computed value differs    *)
(* from the value of the existing attachment.                                *)

SelectsQuantity == config.w2_change_action \in {"update_quantity", "update_both"}

SelectsPrice == config.w2_change_action \in {"update_price", "update_both"}

C34_UpdateCarriesSelectedChanges ==
    (Reconciler /\ Differs /\ config.duplicate_attachment_action = "update") =>
        /\ (config.w2_change_action = "update_quantity" /\ QuantityEqual) =>
              /\ Result.action_type = "skipped_exists"
              /\ calls = << >>
        /\ (config.w2_change_action = "update_price"
              /\ Existing.item_price = probe.price) =>
              /\ Result.action_type = "skipped_exists"
              /\ calls = << >>
        /\ Cardinality(UpdatesIssued) <= 1
        /\ AttachesIssued = {}
        /\ \A n \in UpdatesIssued :
              /\ calls[n].attachment_id = Some(Existing.id)
              /\ ~IsNone(calls[n].quantity) \/ ~IsNone(calls[n].item_price)
              /\ ~IsNone(calls[n].quantity) =>
                    /\ SelectsQuantity
                    /\ calls[n].quantity = Some(probe.quantity)
                    /\ probe.quantity # Existing.quantity
              /\ ~IsNone(calls[n].item_price) =>
                    /\ SelectsPrice
                    /\ calls[n].item_price = Some(probe.price)
                    /\ probe.price # Existing.item_price

\* a real run under the change policy update_price has met an attachment
\* whose quantity and price both differ, and has sent the price alone
C34_Witness ==
    /\ Reconciler
    /\ ~dry_run
    /\ config.duplicate_attachment_action = "update"
    /\ config.w2_change_action = "update_price"
    /\ ~QuantityEqual
    /\ Cardinality(UpdatesIssued) = 1
    /\ \A n \in UpdatesIssued :
          /\ IsNone(calls[n].quantity)
          /\ calls[n].item_price = Some(probe.price)
          /\ calls[n].result = "ok"
    /\ dealProducts[1].quantity = Existing.quantity
    /\ dealProducts[1].item_price = probe.price

-----------------------------------------------------------------------------
(* C35: the match check and the change handler agree on whether a price      *)
(* differs, also when the prices are exactly 0.01 apart: under the duplicate *)
(* policy update with a change policy that selects the price, a real run     *)
(* sends in an update call every computed price that fails the match check   *)
(* against the existing one.                                                 *)

C35_UnmatchedPriceIsSent ==
    ( /\ Reconciler
      /\ ~dry_run
      /\ config.duplicate_attachment_action = "update"
      /\ SelectsPrice
      /\ ~PriceWithinTolerance ) =>
        \E n \in UpdatesIssued : calls[n].item_price = Some(probe.price)

-----------------------------------------------------------------------------
(* C36: of the remote calls of a submission that has a deal id and           *)
(* companies, the first is the deal lookup, the one lookup; the attachment   *)
(* list is fetched once at most, as the second call and only after the       *)
(* lookup found the deal; every other call is issued for a company, after    *)
(* the fetch.  The loop over companies runs with one fetch behind it, and    *)
(* match detection reads the fetched list for every company: in a real run a *)
(* product without attachment in that list is attached, a product with one   *)
(* is not attached again unless the duplicate policy is force_new.           *)

CallsOfOp(op) == { n \in 1..Len(calls) : calls[n].op = op }

AttachCallsOf(k) ==
    { n \in 1..Len(calls) : calls[n].company = k /\ calls[n].op = "attach_product" }

C36_LookupThenOneFetch ==
    /\ calls # << >> =>
          /\ calls[1].op = "get_deal"
          /\ CallsOfOp("get_deal") = {1}
    /\ CallsOfOp("get_deal_products") \subseteq {2}
    /\ 2 \in CallsOfOp("get_deal_products") => calls[1].result = "ok"
    /\ \A n \in 1..Len(calls) :
          IF calls[n].op \in {"get_deal", "get_deal_products"}
          THEN calls[n].company = 0
          ELSE /\ n >= 3
               /\ calls[n].company >= 1
               /\ pc = "company" => calls[n].company \in 1..Len(companies)
               /\ calls[2].op = "get_deal_products"
               /\ calls[2].result \in {"ok", "nosuccess"}
    /\ pc = "company" =>
          /\ CallsOfOp("get_deal_products") = {2}
          /\ \A k \in 1..Len(actions) :
                (~dry_run /\ ~IsNone(actions[k].product_id)) =>
                    /\ IsNone(Matched(k)) => Cardinality(AttachCallsOf(k)) = 1
                    /\ ( /\ ~IsNone(Matched(k))
                         /\ config.duplicate_attachment_action # "force_new" ) =>
                           AttachCallsOf(k) = {}

\* a real run has processed two companies with the same product after one
\* fetch: the list fetched before the first company held no attachment of
\* the product, so the second company attached it as well
C36_Witness ==
    /\ LoopDone
    /\ ~dry_run
    /\ Len(actions) = 2
    /\ CallsOfOp("get_deal_products") = {2}
    /\ actions[1].product_id = actions[2].product_id
    /\ ~IsNone(actions[2].product_id)
    /\ IsNone(Matched(2))
    /\ AttachCallsOf(1) # {}
    /\ AttachCallsOf(2) # {}
    /\ \A n \in AttachCallsOf(1) \cup AttachCallsOf(2) : calls[n].result = "ok"
    /\ Len(dealProducts) = Len(current_attachments) + 2

-----------------------------------------------------------------------------
(* C37: when the deal lookup of a submission answers that the deal does not  *)
(* exist, then with skip_orphaned_deals link_submission returns an outcome   *)
(* of status orphaned with no action and no company processed, and without   *)
(* it link_submission returns no outcome and raises OrphanedDealError; in    *)
(* both cases the lookup is the only remote call of the submission.  An      *)
(* outcome is orphaned, and OrphanedDealError is raised, in no other case.   *)

\* the lookup of the submission last begun answered "no such deal"
DealReportedMissing ==
    /\ calls # << >>
    /\ calls[1].op = "get_deal"
    /\ calls[1].result = "nosuccess"

OrphanedOutcome(result) ==
    /\ result.status = "orphaned"
    /\ result.actions = << >>
    /\ result.companies_processed = 0
    /\ result.total_value_added = 0
    /\ ~IsNone(result.error_message)

C37_MissingDeal ==
    /\ DealReportedMissing =>
          /\ Len(calls) = 1
          /\ IF config.skip_orphaned_deals
             THEN /\ pc \in {"loop", "exited"}
                  /\ exception = "none"
                  /\ results # << >>
                  /\ OrphanedOutcome(Last(results))
             ELSE /\ pc \in {"raised", "exited"}
                  /\ exception = "OrphanedDealError"
                  /\ Len(results) = i - 1
    /\ \A k \in 1..Len(results) :
          results[k].status = "orphaned" =>
              /\ OrphanedOutcome(results[k])
              /\ config.skip_orphaned_deals
    /\ exception = "OrphanedDealError" =>
          /\ DealReportedMissing
          /\ ~config.skip_orphaned_deals

\* the second submission of a run is on a deal that does not exist: its
\* outcome is orphaned after the one lookup, the first has been processed
C37_Witness ==
    /\ pc = "loop"
    /\ config.skip_orphaned_deals
    /\ Len(results) = 2
    /\ results[1].companies_processed > 0
    /\ OrphanedOutcome(results[2])
    /\ DealReportedMissing
    /\ Len(calls) = 1

-----------------------------------------------------------------------------
(* C38: when the deal lookup or the fetch of the attachment list of a        *)
(* submission ends in a failure of the remote call, retries included,        *)
(* link_submission returns an outcome of status failed_error with no         *)
(* company processed, no action, a total value of 0 and an error message,    *)
(* and the failed call is the last remote call of the submission: no         *)
(* catalog and no attachment call follows.                                   *)

\* call n of the submission last begun was ended by an exception of the
\* gateway
CallFailed(n) ==
    /\ n <= Len(calls)
    /\ calls[n].op \in {"get_deal", "get_deal_products"}
    /\ calls[n].result \notin {"ok", "nosuccess"}

FailedOutcome(result) ==
    /\ result.status = "failed_error"
    /\ result.companies_processed = 0
    /\ result.actions = << >>
    /\ result.total_value_added = 0
    /\ ~IsNone(result.error_message)

C38_LookupOrFetchFailure ==
    \A n \in 1..2 :
        CallFailed(n) =>
            /\ Len(calls) = n
            /\ pc \in {"loop", "exited"}
            /\ exception = "none"
            /\ results # << >>
            /\ FailedOutcome(Last(results))
            /\ \A m \in 1..Len(calls) : calls[m].op \notin MutatingOps \cup {"search_product"}

\* the lookup found the deal and the fetch of its attachment list failed
\* after max_retries attempts: the outcome is failed_error
C38_Witness ==
    /\ pc = "loop"
    /\ Len(calls) = 2
    /\ calls[1].result = "ok"
    /\ CallFailed(2)
    /\ api_call_count = 1 + max_retries
    /\ FailedOutcome(Last(results))

-----------------------------------------------------------------------------
(* C39: the backoff sleeps of the gateway follow the schedule: a 429 at      *)
(* attempt n (from 0) is followed by a wait of 2^n seconds, a timeout, a     *)
(* transport error or an HTTP error status by a wait of n + 1 seconds, when  *)
(* the attempt is retried, that is for n below max_retries - 1; the last     *)
(* attempt is followed by no wait.  The total wait of a call is the sum of   *)
(* the waits after its retried attempts.                                     *)

\* the wait the schedule gives for an attempt that met r, attempts numbered
\* from 0; nothing for an attempt that was answered
ScheduledWait(r, attempt) ==
    IF r = "r429" THEN 2^attempt
    ELSE IF r \in Timeouts \/ r \in RequestExceptions THEN attempt + 1
    ELSE 0

\* the scheduled waits of the first k attempts of the call in flight, those
\* numbered below `retried` only
RECURSIVE WaitsUpTo(_, _)
WaitsUpTo(k, retried) ==
    IF k = 0 THEN 0
    ELSE WaitsUpTo(k - 1, retried)
         + (IF k - 1 < retried THEN ScheduledWait(request.results[k], k - 1) ELSE 0)

====
